---- MODULE Spec2Model ----
(***************************************************************************)
(* Quote-request REST API: the pricing and complexity engine               *)
(* (src/constants/services.js, src/controllers/quote.js) and the quote     *)
(* lifecycle (src/models/quote.js, the quote and admin routers).           *)
(*                                                                         *)
(* Conventions of the translation                                          *)
(*  - A JavaScript object whose properties may be missing (a request body, *)
(*    a stored document) is a function whose DOMAIN holds exactly the      *)
(*    properties that are present.                                         *)
(*  - Complexity multipliers (1.0, 1.8, 2.2, 2.5, 3.5 ...) are kept in     *)
(*    tenths (10, 18, 22, 25, 35 ...), so base * multiplier is the exact   *)
(*    rational base * tenths / 10.  For every catalog entry the IEEE       *)
(*    product is either exact (multipliers n.0 and n.5) or at least 0.1    *)
(*    away from a half, so Math.round of the double equals the rounding    *)
(*    of the exact value.                                                  *)
(*  - NaN stands for a numeric result that is NaN or undefined.            *)
(*  - A free-text description is represented by its length after trim().   *)
(***************************************************************************)
EXTENDS Integers, Sequences, FiniteSets, TLC

VARIABLES
    quotes,   \* the quotes collection: slot -> stored document, or NoDoc
    res,      \* the HTTP response of the last request handled
    mail,     \* the e-mails the last request handler attempted, in order
    args,     \* arguments of the pure function under analysis
    result    \* its return value (NoResult before the call)

vars == <<quotes, res, mail, args, result>>

----------------------------------------------------------------------------
(* Bounds of the model *)

MaxAddons == 3

----------------------------------------------------------------------------
(* JavaScript values *)

NaN == 0 - 1

NoResult == [pending |-> TRUE]

Has(obj, key) == key \in DOMAIN obj

Truthy(obj, key) == Has(obj, key) /\ obj[key] # ""

\* A free text is the sequence of its pieces; the piece " " is white space.
Blank == " "

RECURSIVE trimStart(_)
trimStart(text) ==
    IF text # <<>> /\ Head(text) = Blank THEN trimStart(Tail(text)) ELSE text

RECURSIVE trimEnd(_)
trimEnd(text) ==
    IF text # <<>> /\ text[Len(text)] = Blank
    THEN trimEnd(SubSeq(text, 1, Len(text) - 1))
    ELSE text

\* String.prototype.trim
trim(text) == trimEnd(trimStart(text))

ArrayLength(obj, key) == IF Has(obj, key) THEN Len(obj[key]) ELSE 0

Includes(array, x) == \E i \in 1..Len(array) : array[i] = x

JsAdd(a, b) == IF a = NaN \/ b = NaN THEN NaN ELSE a + b

\* variant: Math.floor in place of Math.round
MathRound_Floor(a, tenths) == IF a = NaN THEN NaN ELSE (a * tenths) \div 10

\* Math.round(a * tenths / 10): round half up, NaN when a is NaN
MathRound(a, tenths) == IF a = NaN THEN NaN ELSE (2 * a * tenths + 10) \div 20

----------------------------------------------------------------------------
(* Service catalog: Object.values(SERVICES), in declaration order *)

\* variant: the tiers are discounts from the advanced price
Tier_Discount(m) == [multiplier |-> 40 - m]

Tier(m) == [multiplier |-> m]

SERVICES == <<
    [name |-> "Web Development", category |-> "development",
     basePrice |-> [USD |-> 230, KES |-> 30000],
     priceRange |-> [USD |-> [min |-> 150, max |-> 2300],
                     KES |-> [min |-> 20000, max |-> 300000]],
     timeline |-> "2-12 weeks",
     complexity |-> [basic |-> Tier(10), intermediate |-> Tier(18), advanced |-> Tier(30)]],
    [name |-> "Mobile App Design", category |-> "development",
     basePrice |-> [USD |-> 385, KES |-> 50000],
     priceRange |-> [USD |-> [min |-> 230, max |-> 3850],
                     KES |-> [min |-> 30000, max |-> 500000]],
     timeline |-> "4-16 weeks",
     complexity |-> [basic |-> Tier(10), intermediate |-> Tier(20), advanced |-> Tier(35)]],
    [name |-> "UI/UX Design", category |-> "design",
     basePrice |-> [USD |-> 154, KES |-> 20000],
     priceRange |-> [USD |-> [min |-> 77, max |-> 770],
                     KES |-> [min |-> 10000, max |-> 100000]],
     timeline |-> "1-6 weeks",
     complexity |-> [basic |-> Tier(10), intermediate |-> Tier(18), advanced |-> Tier(25)]],
    [name |-> "E-commerce Solutions", category |-> "development",
     basePrice |-> [USD |-> 308, KES |-> 40000],
     priceRange |-> [USD |-> [min |-> 185, max |-> 3080],
                     KES |-> [min |-> 24000, max |-> 400000]],
     timeline |-> "3-12 weeks",
     complexity |-> [basic |-> Tier(10), intermediate |-> Tier(22), advanced |-> Tier(40)]],
    [name |-> "Digital Marketing", category |-> "marketing",
     basePrice |-> [USD |-> 77, KES |-> 10000],
     priceRange |-> [USD |-> [min |-> 38, max |-> 385],
                     KES |-> [min |-> 5000, max |-> 50000]],
     timeline |-> "1-12 months",
     complexity |-> [basic |-> Tier(10), intermediate |-> Tier(20), advanced |-> Tier(30)]],
    [name |-> "Consulting & Automation", category |-> "consulting",
     basePrice |-> [USD |-> 115, KES |-> 15000],
     priceRange |-> [USD |-> [min |-> 58, max |-> 770],
                     KES |-> [min |-> 7500, max |-> 100000]],
     timeline |-> "1-8 weeks",
     complexity |-> [basic |-> Tier(10), intermediate |-> Tier(25), advanced |-> Tier(40)]]
>>

\* Array.prototype.find: the first service of that name, or undefined
undefinedService == [name |-> "undefined"]

\* variant: an unknown name falls back to the first service
getServiceByName_Default(name) ==
    IF \E i \in 1..Len(SERVICES) : SERVICES[i].name = name
    THEN SERVICES[CHOOSE i \in 1..Len(SERVICES) : SERVICES[i].name = name]
    ELSE SERVICES[1]

getServiceByName(name) ==
    IF \E i \in 1..Len(SERVICES) : SERVICES[i].name = name
    THEN SERVICES[CHOOSE i \in 1..Len(SERVICES) :
                     /\ SERVICES[i].name = name
                     /\ \A j \in 1..(i - 1) : SERVICES[j].name # name]
    ELSE undefinedService

\* table[currency] used as a number: NaN when the table has no such entry
PriceIn(table, currency) == IF currency \in DOMAIN table THEN table[currency] ELSE NaN

----------------------------------------------------------------------------
(* Addon catalog.  prices keeps the tiers in declaration order, which is   *)
(* the order of Object.keys(addonService.prices).                          *)

AddonTier(tier, usd, kes) == [tier |-> tier, price |-> [USD |-> usd, KES |-> kes]]

SERVICE_ADDONS ==
    [hosting |-> [name |-> "Web Hosting",
                  prices |-> <<AddonTier("basic", 10, 1300),
                               AddonTier("premium", 25, 3250),
                               AddonTier("enterprise", 50, 6500)>>],
     domain |-> [name |-> "Domain Registration",
                 prices |-> <<AddonTier(".com", 15, 1950),
                              AddonTier(".co.ke", 20, 2600),
                              AddonTier(".org", 18, 2340)>>],
     maintenance |-> [name |-> "Website Maintenance",
                      prices |-> <<AddonTier("monthly", 100, 13000),
                                   AddonTier("quarterly", 250, 32500),
                                   AddonTier("yearly", 800, 104000)>>],
     ssl |-> [name |-> "SSL Certificate",
              prices |-> <<AddonTier("basic", 50, 6500),
                           AddonTier("premium", 150, 19500)>>]]

\* SERVICE_ADDONS is a plain object literal: besides its own four keys, a
\* lookup SERVICE_ADDONS[key] also finds the members of Object.prototype,
\* which are truthy and have no .prices
ObjectPrototypeKeys == {"constructor", "toString", "valueOf", "hasOwnProperty", "__proto__"}

\* variant: no fall back to the first declared tier
addonDefaultPrice_NoFallback(addonService, currency) ==
    LET prices == addonService.prices
        basic == IF \E i \in 1..Len(prices) : prices[i].tier = "basic"
                 THEN PriceIn((prices[CHOOSE i \in 1..Len(prices) : prices[i].tier = "basic"]).price,
                              currency)
                 ELSE NaN
    IN IF basic # NaN /\ basic # 0 THEN basic ELSE 0

\* addonService.prices.basic?.[currency]
\*     || addonService.prices[Object.keys(addonService.prices)[0]]?.[currency] || 0
addonDefaultPrice(addonService, currency) ==
    LET prices == addonService.prices
        basic == IF \E i \in 1..Len(prices) : prices[i].tier = "basic"
                 THEN PriceIn((prices[CHOOSE i \in 1..Len(prices) : prices[i].tier = "basic"]).price,
                              currency)
                 ELSE NaN
        first == IF Len(prices) > 0 THEN PriceIn(prices[1].price, currency) ELSE NaN
    IN IF basic # NaN /\ basic # 0 THEN basic
       ELSE IF first # NaN /\ first # 0 THEN first
       ELSE 0

\* variant: maintenance is not itemised
RECURSIVE addonDetailsOf_SkipMaintenance(_, _)
addonDetailsOf_SkipMaintenance(addons, currency) ==
    IF addons = <<>> THEN <<>>
    ELSE LET addon == Head(addons)
             rest == addonDetailsOf_SkipMaintenance(Tail(addons), currency)
         IN IF addon \in DOMAIN SERVICE_ADDONS /\ addon # "maintenance"
            THEN <<[name |-> SERVICE_ADDONS[addon].name,
                    price |-> addonDefaultPrice(SERVICE_ADDONS[addon], currency),
                    currency |-> currency]>> \o rest
            ELSE rest

\* the addons.forEach loop: one entry per requested key found in SERVICE_ADDONS
RECURSIVE addonDetailsOf(_, _)
addonDetailsOf(addons, currency) ==
    IF addons = <<>> THEN <<>>
    ELSE LET addon == Head(addons)
             rest == addonDetailsOf(Tail(addons), currency)
         IN IF addon \in DOMAIN SERVICE_ADDONS
            THEN <<[name |-> SERVICE_ADDONS[addon].name,
                    price |-> addonDefaultPrice(SERVICE_ADDONS[addon], currency),
                    currency |-> currency]>> \o rest
            ELSE rest

RECURSIVE SumPrices(_)
SumPrices(details) ==
    IF details = <<>> THEN 0 ELSE JsAdd(Head(details).price, SumPrices(Tail(details)))

\* an inherited key passes `if (SERVICE_ADDONS[addon])` and then reads
\* `.basic` of an undefined `prices`: TypeError
addonsThrow(addons) == \E i \in 1..Len(addons) : addons[i] \in ObjectPrototypeKeys

\* variant: the tier is not looked up
multiplierOf_Unit(service, complexity) == 10

\* variant: an unknown tier is priced as the advanced tier
multiplierOf_AdvancedFallback(service, complexity) ==
    IF complexity \in DOMAIN service.complexity
    THEN service.complexity[complexity].multiplier
    ELSE service.complexity["advanced"].multiplier

\* service.complexity[complexity]?.multiplier || 1.0
multiplierOf(service, complexity) ==
    IF complexity \in DOMAIN service.complexity
    THEN service.complexity[complexity].multiplier
    ELSE 10

calculateEstimatedPrice(serviceName, complexity, currency, addons) ==
    LET service == getServiceByName(serviceName) IN
    IF service = undefinedService THEN [error |-> "Service not found"]
    ELSE IF addonsThrow(addons) THEN [error |-> "TypeError"]
    ELSE LET basePrice == PriceIn(service.basePrice, currency)
             multiplier == multiplierOf(service, complexity)
             servicePrice == MathRound(basePrice, multiplier)
             addonDetails == addonDetailsOf(addons, currency)
             addonPrice == SumPrices(addonDetails)
             totalPrice == JsAdd(servicePrice, addonPrice)
         IN [service |-> serviceName,
             complexity |-> complexity,
             currency |-> currency,
             basePrice |-> basePrice,
             multiplier |-> multiplier,
             servicePrice |-> servicePrice,
             addons |-> addonDetails,
             addonPrice |-> addonPrice,
             totalPrice |-> totalPrice,
             priceRange |-> IF currency \in DOMAIN service.priceRange
                            THEN service.priceRange[currency]
                            ELSE [min |-> NaN, max |-> NaN],
             timeline |-> service.timeline]

----------------------------------------------------------------------------
(* Complexity classifier, src/controllers/quote.js *)

effectiveCurrency(quoteData) ==
    IF Truthy(quoteData, "currency") THEN quoteData.currency ELSE "KES"

\* variant: the lower threshold of the budget ratio is 2
budgetScore_RatioTwo(quoteData) ==
    LET budget == IF Has(quoteData, "budget") THEN quoteData.budget ELSE NaN
        service == getServiceByName(IF Has(quoteData, "service") THEN quoteData.service
                                    ELSE "undefined")
    IN IF service = undefinedService THEN 0
       ELSE LET basePrice == PriceIn(service.basePrice, effectiveCurrency(quoteData))
            IN IF basePrice = NaN \/ budget = NaN THEN 0
               ELSE IF budget >= 3 * basePrice THEN 2
               ELSE IF budget >= 2 * basePrice THEN 1
               ELSE 0

\* budgetRatio >= 3 adds 2, else >= 1.5 adds 1; a comparison with NaN is false
budgetScore(quoteData) ==
    LET budget == IF Has(quoteData, "budget") THEN quoteData.budget ELSE NaN
        service == getServiceByName(IF Has(quoteData, "service") THEN quoteData.service
                                    ELSE "undefined")
    IN IF service = undefinedService THEN 0
       ELSE LET basePrice == PriceIn(service.basePrice, effectiveCurrency(quoteData))
            IN IF basePrice = NaN \/ budget = NaN THEN 0
               ELSE IF budget >= 3 * basePrice THEN 2
               ELSE IF 2 * budget >= 3 * basePrice THEN 1
               ELSE 0

\* variant: a timeline of 1-2 weeks takes no point off
timelineScore_NoPenalty(quoteData) ==
    IF ~Has(quoteData, "timeline") THEN 0
    ELSE IF quoteData.timeline = "6+ months" THEN 2
    ELSE IF quoteData.timeline = "3-6 months" THEN 1
    ELSE 0

timelineScore(quoteData) ==
    IF ~Has(quoteData, "timeline") THEN 0
    ELSE IF quoteData.timeline = "6+ months" THEN 2
    ELSE IF quoteData.timeline = "3-6 months" THEN 1
    ELSE IF quoteData.timeline = "1-2 weeks" THEN 0 - 1
    ELSE 0

developmentScore(quoteData) ==
    IF Has(quoteData, "service")
       /\ (quoteData.service = "Web Development" \/ quoteData.service = "Mobile App Design")
    THEN (IF ArrayLength(quoteData, "features") >= 4 THEN 2
          ELSE IF ArrayLength(quoteData, "features") >= 2 THEN 1 ELSE 0)
         + (IF Has(quoteData, "features") /\ Includes(quoteData.features, "Authentication")
            THEN 1 ELSE 0)
         + (IF Has(quoteData, "features") /\ Includes(quoteData.features, "API")
            THEN 1 ELSE 0)
    ELSE 0

designScore(quoteData) ==
    IF Has(quoteData, "service") /\ quoteData.service = "UI/UX Design"
    THEN (IF ArrayLength(quoteData, "designType") >= 3 THEN 2
          ELSE IF ArrayLength(quoteData, "designType") >= 2 THEN 1 ELSE 0)
         + (IF ArrayLength(quoteData, "platforms") >= 3 THEN 1 ELSE 0)
    ELSE 0

marketingScore(quoteData) ==
    IF Has(quoteData, "service") /\ quoteData.service = "Digital Marketing"
    THEN (IF ArrayLength(quoteData, "marketingChannels") >= 4 THEN 2
          ELSE IF ArrayLength(quoteData, "marketingChannels") >= 2 THEN 1 ELSE 0)
         + (IF Has(quoteData, "campaignDuration")
               /\ (quoteData.campaignDuration = "12 Months"
                   \/ quoteData.campaignDuration = "Ongoing")
            THEN 1 ELSE 0)
    ELSE 0

descriptionScore(quoteData) ==
    IF Has(quoteData, "description") /\ quoteData.description > 500 THEN 1 ELSE 0

\* the local complexityScore when the final mapping is reached
complexityScore(quoteData) ==
    budgetScore(quoteData) + timelineScore(quoteData) + developmentScore(quoteData)
    + designScore(quoteData) + marketingScore(quoteData) + descriptionScore(quoteData)

\* variant: advanced only above 4
complexityOfScore_Above(score) ==
    IF score > 4 THEN "advanced"
    ELSE IF score >= 2 THEN "intermediate"
    ELSE "basic"

complexityOfScore(score) ==
    IF score >= 4 THEN "advanced"
    ELSE IF score >= 2 THEN "intermediate"
    ELSE "basic"

determineComplexity(quoteData) == complexityOfScore(complexityScore(quoteData))

\* variant: the addons are read for every service
determineAddons_AnyService(quoteData) ==
    (IF Has(quoteData, "hosting") /\ quoteData.hosting = "Yes" THEN <<"hosting">> ELSE <<>>)
    \o (IF Has(quoteData, "domain") /\ quoteData.domain = "Yes" THEN <<"domain">> ELSE <<>>)
    \o (IF Truthy(quoteData, "maintenance") /\ quoteData.maintenance # "None"
        THEN <<"maintenance">> ELSE <<>>)

\* variant: maintenance is not an addon
determineAddons_NoMaintenance(quoteData) ==
    IF Has(quoteData, "service")
       /\ (quoteData.service = "Web Development" \/ quoteData.service = "Mobile App Design")
    THEN (IF Has(quoteData, "hosting") /\ quoteData.hosting = "Yes" THEN <<"hosting">> ELSE <<>>)
         \o (IF Has(quoteData, "domain") /\ quoteData.domain = "Yes" THEN <<"domain">> ELSE <<>>)
    ELSE <<>>

determineAddons(quoteData) ==
    IF Has(quoteData, "service")
       /\ (quoteData.service = "Web Development" \/ quoteData.service = "Mobile App Design")
    THEN (IF Has(quoteData, "hosting") /\ quoteData.hosting = "Yes" THEN <<"hosting">> ELSE <<>>)
         \o (IF Has(quoteData, "domain") /\ quoteData.domain = "Yes" THEN <<"domain">> ELSE <<>>)
         \o (IF Truthy(quoteData, "maintenance") /\ quoteData.maintenance # "None"
             THEN <<"maintenance">> ELSE <<>>)
    ELSE <<>>

----------------------------------------------------------------------------
(* The stored collection and the HTTP exchange, at rest *)

NoDoc == [absent |-> TRUE]

NoRes == [status |-> 0]

----------------------------------------------------------------------------
(* Inputs of the pure functions *)

ServiceNames == {SERVICES[i].name : i \in 1..Len(SERVICES)}

\* a set of objects, each also taken with property key set to a value of values
WithOptional(objects, key, values) ==
    objects \cup {(key :> v) @@ obj : obj \in objects, v \in values}

FeatureLists ==
    {<<"Frontend">>,
     <<"Frontend", "Backend">>,
     <<"Authentication", "API">>,
     <<"Frontend", "Backend", "Database">>,
     <<"Frontend", "Backend", "Database", "Frontend">>,
     <<"Frontend", "Backend", "Database", "API">>,
     <<"Frontend", "Backend", "Database", "API", "Authentication">>}

DesignTypeLists ==
    {<<"Website">>, <<"Website", "Mobile App">>, <<"Website", "Mobile App", "Dashboard">>}

PlatformLists == {<<"Desktop", "Mobile">>, <<"Desktop", "Tablet", "Mobile">>}

MarketingChannelLists ==
    {<<"SEO">>, <<"SEO", "PPC">>, <<"Social Media", "SEO", "Content Marketing", "PPC">>}

\* the service-specific option fields a request may carry
OptionProfiles ==
    LET none == {<<>>}
        development == {("features" :> f) : f \in FeatureLists}
        design == WithOptional({("designType" :> d) : d \in DesignTypeLists},
                               "platforms", PlatformLists)
        marketing == WithOptional({("marketingChannels" :> m) : m \in MarketingChannelLists},
                                  "campaignDuration", {"3 Months", "12 Months", "Ongoing"})
        all == {[features |-> f,
                 designType |-> <<"Website", "Mobile App", "Dashboard">>,
                 platforms |-> <<"Desktop", "Tablet", "Mobile">>,
                 marketingChannels |-> <<"Social Media", "SEO", "Content Marketing", "PPC">>,
                 campaignDuration |-> "12 Months"] :
                    f \in {<<"Frontend", "Backend">>,
                           <<"Frontend", "Backend", "Database", "API", "Authentication">>}}
    IN none \cup development \cup design \cup marketing \cup all

ClassifyInputs ==
    LET base == {[service |-> s, timeline |-> t, budget |-> b, description |-> d] :
                    s \in ServiceNames \cup {"Logo Design"},
                    t \in {"1-2 weeks", "1-2 months", "3-6 months", "6+ months"},
                    b \in {0, 344, 345, 690, 50000},
                    d \in {20, 500, 501}}
        withCurrency == WithOptional(base, "currency", {"USD", "KES", "EUR"})
    IN {o @@ q : o \in OptionProfiles, q \in withCurrency}

RECURSIVE SeqsUpTo(_, _)
SeqsUpTo(S, n) ==
    IF n = 0 THEN {<<>>}
    ELSE LET shorter == SeqsUpTo(S, n - 1)
         IN shorter \cup {Append(q, x) : q \in shorter, x \in S}

PriceInputs ==
    [serviceName : ServiceNames \cup {"Logo Design"},
     complexity : {"basic", "intermediate", "advanced", "expert"},
     currency : {"USD", "KES", "EUR"},
     addons : SeqsUpTo({"hosting", "domain", "maintenance", "ssl", "cdn", "constructor"},
                       MaxAddons)]

----------------------------------------------------------------------------
(* Specification of the classifier: one call of determineComplexity *)

InitClassify ==
    /\ quotes = <<>>
    /\ res = NoRes
    /\ mail = <<>>
    /\ args \in ClassifyInputs
    /\ result = NoResult

Classify ==
    /\ result = NoResult
    /\ result' = [complexityScore |-> complexityScore(args),
                  complexity |-> determineComplexity(args)]
    /\ UNCHANGED <<quotes, res, mail, args>>

NextClassify == Classify

SpecClassify == InitClassify /\ [][NextClassify]_vars

----------------------------------------------------------------------------
(* Specification of the price calculator: one call of calculateEstimatedPrice *)

InitPrice ==
    /\ quotes = <<>>
    /\ res = NoRes
    /\ mail = <<>>
    /\ args \in PriceInputs
    /\ result = NoResult

Calculate ==
    /\ result = NoResult
    /\ result' = calculateEstimatedPrice(args.serviceName, args.complexity,
                                         args.currency, args.addons)
    /\ UNCHANGED <<quotes, res, mail, args>>

NextPrice == Calculate

SpecPrice == InitPrice /\ [][NextPrice]_vars

----------------------------------------------------------------------------
(* Quote model, src/models/quote.js.  The contact fields (name, email,     *)
(* phone, company) take no part in any decision below and are left out:    *)
(* every request carries valid ones.                                       *)

MaxQuotes == 1

QuoteStatuses == {"pending", "reviewed", "quoted", "accepted", "rejected", "completed"}

TIMELINES == {"1-2 weeks", "3-4 weeks", "1-2 months", "3-6 months", "6+ months", "Flexible"}

SupportedCurrencies == {"USD", "KES"}

DevelopmentServices == {"Web Development", "Mobile App Design"}

SchemaPaths ==
    {"service", "timeline", "budget", "currency", "description", "features", "hosting",
     "domain", "maintenance", "designType", "platforms", "pages", "marketingChannels",
     "campaignDuration", "targetAudience", "status", "priority", "notes", "quotedAmount",
     "quotedCurrency"}

SchemaDefaults ==
    [currency |-> "USD", status |-> "pending", priority |-> "medium",
     quotedCurrency |-> "USD", features |-> <<>>, designType |-> <<>>,
     platforms |-> <<>>, marketingChannels |-> <<>>]

\* new Quote(quoteData): the schema's paths of the body, then the defaults
newQuote(quoteData) ==
    [k \in DOMAIN quoteData \cap SchemaPaths |-> quoteData[k]] @@ SchemaDefaults

AllIn(array, values) == \A i \in 1..Len(array) : array[i] \in values

OptionalIn(obj, key, values) == Has(obj, key) => obj[key] \in values

\* the schema's validators (required, enum, min, maxlength)
schemaValid(doc) ==
    /\ Has(doc, "service") /\ doc.service \in ServiceNames
    /\ Has(doc, "timeline") /\ doc.timeline \in TIMELINES
    /\ Has(doc, "budget") /\ doc.budget >= 0
    /\ doc.currency \in SupportedCurrencies
    /\ Has(doc, "description") /\ doc.description > 0 /\ doc.description <= 2000
    /\ AllIn(doc.features, {"Frontend", "Backend", "Database", "API", "Authentication"})
    /\ OptionalIn(doc, "hosting", {"Yes", "No", "Advice"})
    /\ OptionalIn(doc, "domain", {"Yes", "No", "Advice"})
    /\ OptionalIn(doc, "maintenance", {"None", "Monthly", "Quarterly", "Yearly", "Custom"})
    /\ doc.service \in DevelopmentServices =>
          Truthy(doc, "hosting") /\ Truthy(doc, "domain") /\ Truthy(doc, "maintenance")
    /\ AllIn(doc.designType, {"Website", "Mobile App", "Dashboard", "Branding"})
    /\ AllIn(doc.platforms, {"Desktop", "Tablet", "Mobile"})
    /\ doc.service = "UI/UX Design" => Truthy(doc, "pages")
    /\ AllIn(doc.marketingChannels,
             {"Social Media", "SEO", "Content Marketing", "Email Marketing", "PPC"})
    /\ OptionalIn(doc, "campaignDuration",
                  {"1 Month", "3 Months", "6 Months", "12 Months", "Ongoing"})
    /\ doc.service = "Digital Marketing" =>
          Truthy(doc, "campaignDuration") /\ Truthy(doc, "targetAudience")
    /\ doc.status \in QuoteStatuses
    /\ doc.priority \in {"low", "medium", "high", "urgent"}
    /\ Has(doc, "quotedAmount") => doc.quotedAmount # NaN /\ doc.quotedAmount >= 0
    /\ doc.quotedCurrency \in SupportedCurrencies

\* quoteSchema.pre('save')
preSaveOk(doc) ==
    /\ doc.service \in DevelopmentServices =>
          Truthy(doc, "hosting") /\ Truthy(doc, "domain") /\ Truthy(doc, "maintenance")
    /\ doc.service = "UI/UX Design" =>
          Truthy(doc, "pages") /\ Len(doc.designType) # 0 /\ Len(doc.platforms) # 0
    /\ doc.service = "Digital Marketing" =>
          /\ Truthy(doc, "campaignDuration") /\ Truthy(doc, "targetAudience")
          /\ Len(doc.marketingChannels) # 0

\* document.save(): validation, then the pre-save hook, then the write
saveOutcome(doc) ==
    IF ~schemaValid(doc) THEN "ValidationError"
    ELSE IF ~preSaveOk(doc) THEN "Error"
    ELSE "saved"

\* the setter of the path notes (trim: true)
castNotes(notes) == trim(notes)

\* variant: a rejected or completed quote keeps its status
updateStatus_KeepTerminal(doc, newStatus, notes) ==
    LET withStatus == IF doc.status \in {"rejected", "completed"} THEN doc
                      ELSE [doc EXCEPT !.status = newStatus]
    IN IF Len(notes) # 0
       THEN ("notes" :> castNotes(notes)) @@ withStatus
       ELSE withStatus

\* variant: the notes are not assigned
updateStatus_IgnoreNotes(doc, newStatus, notes) == [doc EXCEPT !.status = newStatus]

\* variant: the notes are assigned whether a note was given or not
updateStatus_AlwaysNotes(doc, newStatus, notes) ==
    ("notes" :> castNotes(notes)) @@ [doc EXCEPT !.status = newStatus]

\* quoteSchema.methods.updateStatus, up to its save(); notes = '' by default
updateStatus(doc, newStatus, notes) ==
    LET withStatus == [doc EXCEPT !.status = newStatus]
    IN IF Len(notes) # 0
       THEN ("notes" :> castNotes(notes)) @@ withStatus
       ELSE withStatus

\* variant: the currency is not assigned
addQuote_KeepCurrency(doc, amount, currency) ==
    [k \in {"quotedAmount", "status"} |->
        IF k = "quotedAmount" THEN amount ELSE "quoted"] @@ doc

\* variant: the status of a rejected or completed quote is not assigned
addQuote_UnlessTerminal(doc, amount, currency) ==
    [k \in {"quotedAmount", "quotedCurrency", "status"} |->
        CASE k = "quotedAmount" -> amount
          [] k = "quotedCurrency" -> currency
          [] OTHER -> IF doc.status \in {"rejected", "completed"} THEN doc.status
                      ELSE "quoted"] @@ doc

\* quoteSchema.methods.addQuote, up to its save()
addQuote(doc, amount, currency) ==
    [k \in {"quotedAmount", "quotedCurrency", "status"} |->
        CASE k = "quotedAmount" -> amount
          [] k = "quotedCurrency" -> currency
          [] OTHER -> "quoted"] @@ doc

----------------------------------------------------------------------------
(* Middleware: authentication, authorisation, request validation *)

\* jwt.verify of the symbolic tokens
verifyToken(token) ==
    CASE token = "admin-token" -> [role |-> "admin"]
      [] token = "user-token" -> [role |-> "user"]
      [] token = "expired-token" -> [error |-> "TokenExpiredError"]
      [] token = "premature-token" -> [error |-> "NotBeforeError"]
      [] OTHER -> [error |-> "JsonWebTokenError"]

Reply(status, success, message) ==
    [status |-> status, success |-> success, message |-> message]

Passed == [status |-> 0]

\* authenticate: the Authorization header is the sequence of its words
authenticate(authHeader) ==
    IF Len(authHeader) = 0 THEN Reply(401, FALSE, "Access token is required")
    ELSE IF Len(authHeader) < 2 THEN Reply(401, FALSE, "Access token is required")
    ELSE LET decoded == verifyToken(authHeader[2])
         IN IF ~Has(decoded, "error") THEN Passed
            ELSE IF decoded.error = "TokenExpiredError"
                 THEN Reply(401, FALSE, "Token has expired")
            ELSE IF decoded.error = "JsonWebTokenError"
                 THEN Reply(401, FALSE, "Invalid token")
            ELSE Reply(500, FALSE, "Token verification failed")

\* authorizeAdmin, after authenticate has set req.user
authorizeAdmin(authHeader) ==
    IF verifyToken(authHeader[2]).role # "admin"
    THEN Reply(403, FALSE, "Admin access required")
    ELSE Passed

\* the chain authenticate, authorizeAdmin of every admin route
adminGate(authHeader) ==
    IF authenticate(authHeader) # Passed THEN authenticate(authHeader)
    ELSE authorizeAdmin(authHeader)

MalformedId == 0

isMongoId(id) == id # MalformedId

\* a validation chain yields the set of the fields whose rule failed
FieldError(field, ok) == IF ok THEN {} ELSE {field}

\* handleValidationErrors: 400 with the failing fields, or next()
handleValidationErrors(errors) ==
    IF errors # {}
    THEN [errors |-> errors] @@ Reply(400, FALSE, "Validation failed")
    ELSE Passed

validateCreateQuote(body) ==
    FieldError("service", Truthy(body, "service") /\ body.service \in ServiceNames)
    \cup FieldError("timeline", Truthy(body, "timeline") /\ body.timeline \in TIMELINES)
    \cup FieldError("budget", Has(body, "budget") /\ body.budget >= 0)
    \cup FieldError("currency", OptionalIn(body, "currency", SupportedCurrencies))
    \cup FieldError("description",
                    Has(body, "description") /\ body.description >= 10
                    /\ body.description <= 2000)
    \cup FieldError("features",
                    Has(body, "features") =>
                        AllIn(body.features,
                              {"Frontend", "Backend", "Database", "API", "Authentication"}))
    \cup FieldError("hosting", OptionalIn(body, "hosting", {"Yes", "No", "Advice"}))
    \cup FieldError("domain", OptionalIn(body, "domain", {"Yes", "No", "Advice"}))
    \cup FieldError("maintenance",
                    OptionalIn(body, "maintenance",
                               {"None", "Monthly", "Quarterly", "Yearly", "Custom"}))
    \cup FieldError("designType",
                    Has(body, "designType") =>
                        AllIn(body.designType,
                              {"Website", "Mobile App", "Dashboard", "Branding"}))
    \cup FieldError("platforms",
                    Has(body, "platforms") =>
                        AllIn(body.platforms, {"Desktop", "Tablet", "Mobile"}))
    \cup FieldError("marketingChannels",
                    Has(body, "marketingChannels") =>
                        AllIn(body.marketingChannels,
                              {"Social Media", "SEO", "Content Marketing",
                               "Email Marketing", "PPC"}))
    \cup FieldError("campaignDuration",
                    OptionalIn(body, "campaignDuration",
                               {"1 Month", "3 Months", "6 Months", "12 Months", "Ongoing"}))

validateUpdateStatus(id, body) ==
    FieldError("id", isMongoId(id))
    \cup FieldError("status", Truthy(body, "status") /\ body.status \in QuoteStatuses)

\* the sanitizer of the chain: body('notes').optional().trim()
sanitizeUpdateStatus(body) ==
    IF Has(body, "notes") THEN [body EXCEPT !.notes = trim(@)] ELSE body

validateAddQuote(id, body) ==
    FieldError("id", isMongoId(id))
    \cup FieldError("amount", Has(body, "amount") /\ body.amount >= 1)
    \cup FieldError("currency", OptionalIn(body, "currency", SupportedCurrencies))

validateObjectId(id) == FieldError("id", isMongoId(id))

----------------------------------------------------------------------------
(* Controllers, src/controllers/quote.js.  A handler is run to completion: *)
(* it yields the collection, the response and the e-mails it attempted.    *)

Outcome(collection, response, mails) ==
    [quotes |-> collection, res |-> response, mail |-> mails]

Email(template, sent) == [template |-> template, sent |-> sent]

\* variant: when an e-mail fails the automatic price is taken back
createQuote_Rollback(slot, quoteData, customerMail, adminMail) ==
    LET quote == newQuote(quoteData)
        warning == [warning |-> "Quote email delivery failed"]
                   @@ Reply(201, TRUE,
                        "Quote request submitted successfully, but there was an issue sending the quote email")
    IN IF saveOutcome(quote) = "ValidationError"
       THEN Outcome(quotes, Reply(400, FALSE, "Validation failed"), <<>>)
       ELSE IF saveOutcome(quote) = "Error"
       THEN Outcome(quotes, Reply(500, FALSE, "Failed to create quote request"), <<>>)
       ELSE
       LET saved == [quotes EXCEPT ![slot] = quote]
           currency == effectiveCurrency(quoteData)
           priceCalculation ==
               calculateEstimatedPrice(quoteData.service, determineComplexity(quoteData),
                                       currency, determineAddons(quoteData))
       IN IF Has(priceCalculation, "error")
          THEN Outcome(saved, [data |-> quote] @@ warning, <<>>)
          ELSE
          LET quotedQuote == addQuote(quote, priceCalculation.totalPrice, currency)
              quoted == [quotes EXCEPT ![slot] = quotedQuote]
          IN IF saveOutcome(quotedQuote) # "saved"
             THEN Outcome(saved, [data |-> quotedQuote] @@ warning, <<>>)
             ELSE IF ~customerMail
             THEN Outcome(saved, [data |-> quote] @@ warning,
                          <<Email("quoteResponse", FALSE)>>)
             ELSE IF ~adminMail
             THEN Outcome(saved, [data |-> quote] @@ warning,
                          <<Email("quoteResponse", TRUE), Email("quoteNotification", FALSE)>>)
             ELSE Outcome(quoted,
                          [data |-> [quote |-> quotedQuote, priceBreakdown |-> priceCalculation]]
                          @@ Reply(201, TRUE, "Quote request submitted and quote sent successfully"),
                          <<Email("quoteResponse", TRUE), Email("quoteNotification", TRUE)>>)

\* createQuote, storing under the fresh id slot; customerMail and adminMail
\* tell whether the transport delivers the two messages
createQuote(slot, quoteData, customerMail, adminMail) ==
    LET quote == newQuote(quoteData)
        warning == [warning |-> "Quote email delivery failed"]
                   @@ Reply(201, TRUE,
                        "Quote request submitted successfully, but there was an issue sending the quote email")
    IN IF saveOutcome(quote) = "ValidationError"
       THEN Outcome(quotes, Reply(400, FALSE, "Validation failed"), <<>>)
       ELSE IF saveOutcome(quote) = "Error"
       THEN Outcome(quotes, Reply(500, FALSE, "Failed to create quote request"), <<>>)
       ELSE
       LET saved == [quotes EXCEPT ![slot] = quote]
           complexity == determineComplexity(quoteData)
           addons == determineAddons(quoteData)
           currency == effectiveCurrency(quoteData)
           priceCalculation ==
               calculateEstimatedPrice(quoteData.service, complexity, currency, addons)
       IN IF Has(priceCalculation, "error")
          THEN Outcome(saved, [data |-> quote] @@ warning, <<>>)
          ELSE
          LET quotedQuote == addQuote(quote, priceCalculation.totalPrice, currency)
              quoted == [quotes EXCEPT ![slot] = quotedQuote]
          IN IF saveOutcome(quotedQuote) # "saved"
             THEN Outcome(saved, [data |-> quotedQuote] @@ warning, <<>>)
             ELSE IF ~customerMail
             THEN Outcome(quoted, [data |-> quotedQuote] @@ warning,
                          <<Email("quoteResponse", FALSE)>>)
             ELSE IF ~adminMail
             THEN Outcome(quoted, [data |-> quotedQuote] @@ warning,
                          <<Email("quoteResponse", TRUE), Email("quoteNotification", FALSE)>>)
             ELSE Outcome(quoted,
                          [data |-> [quote |-> quotedQuote, priceBreakdown |-> priceCalculation]]
                          @@ Reply(201, TRUE, "Quote request submitted and quote sent successfully"),
                          <<Email("quoteResponse", TRUE), Email("quoteNotification", TRUE)>>)

\* variant: archived is in the list
validStatuses_WithArchived ==
    {"pending", "reviewed", "quoted", "accepted", "rejected", "completed", "archived"}

validStatuses == {"pending", "reviewed", "quoted", "accepted", "rejected", "completed"}

\* updateQuoteStatus; a failed status e-mail is logged and changes nothing
updateQuoteStatus(id, body) ==
    LET status == IF Has(body, "status") THEN body.status ELSE "undefined"
        notes == IF Has(body, "notes") THEN body.notes ELSE <<>>
    IN IF status \notin validStatuses
       THEN Outcome(quotes, Reply(400, FALSE, "Invalid status value"), <<>>)
       ELSE IF ~isMongoId(id)
       THEN Outcome(quotes, Reply(400, FALSE, "Invalid quote ID format"), <<>>)
       ELSE IF quotes[id] = NoDoc
       THEN Outcome(quotes, Reply(404, FALSE, "Quote not found"), <<>>)
       ELSE
       LET quote == quotes[id]
           oldStatus == quote.status
           updatedQuote == updateStatus(quote, status, notes)
       IN IF saveOutcome(updatedQuote) # "saved"
          THEN Outcome(quotes, Reply(500, FALSE, "Failed to update quote status"), <<>>)
          ELSE Outcome([quotes EXCEPT ![id] = updatedQuote],
                       [data |-> updatedQuote]
                       @@ Reply(200, TRUE, "Quote status updated successfully"),
                       <<[oldStatus |-> oldStatus] @@ Email("statusUpdate", TRUE)>>)

\* addQuoteAmount; currency = 'USD' when the body has none
addQuoteAmount(id, body) ==
    LET amount == IF Has(body, "amount") THEN body.amount ELSE 0
        currency == IF Has(body, "currency") THEN body.currency ELSE "USD"
    IN IF amount <= 0
       THEN Outcome(quotes, Reply(400, FALSE, "Valid quote amount is required"), <<>>)
       ELSE IF ~isMongoId(id)
       THEN Outcome(quotes, Reply(400, FALSE, "Invalid quote ID format"), <<>>)
       ELSE IF quotes[id] = NoDoc
       THEN Outcome(quotes, Reply(404, FALSE, "Quote not found"), <<>>)
       ELSE
       LET updatedQuote == addQuote(quotes[id], amount, currency)
       IN IF saveOutcome(updatedQuote) # "saved"
          THEN Outcome(quotes, Reply(500, FALSE, "Failed to add quote amount"), <<>>)
          ELSE Outcome([quotes EXCEPT ![id] = updatedQuote],
                       [data |-> updatedQuote]
                       @@ Reply(200, TRUE, "Quote amount added successfully"),
                       <<Email("quoteResponse", TRUE)>>)

deleteQuote(id) ==
    IF ~isMongoId(id)
    THEN Outcome(quotes, Reply(400, FALSE, "Invalid quote ID format"), <<>>)
    ELSE IF quotes[id] = NoDoc
    THEN Outcome(quotes, Reply(404, FALSE, "Quote not found"), <<>>)
    ELSE Outcome([quotes EXCEPT ![id] = NoDoc],
                 [data |-> quotes[id]] @@ Reply(200, TRUE, "Quote deleted successfully"),
                 <<>>)

\* variant: archived is in the list of the bulk route
bulkValidStatuses_WithArchived ==
    {"pending", "reviewed", "quoted", "accepted", "rejected", "completed", "archived"}

\* the list of the bulk route
bulkValidStatuses == {"pending", "reviewed", "quoted", "accepted", "rejected", "completed"}

\* PATCH /api/admin/quotes/bulk-update-status: Quote.updateMany, which casts
\* the update by the schema and runs neither the validators nor the pre-save
\* hook
bulkUpdateStatus(body) ==
    LET status == IF Has(body, "status") THEN body.status ELSE "undefined"
        updateData == IF ArrayLength(body, "notes") # 0
                      THEN [status |-> status, notes |-> castNotes(body.notes)]
                      ELSE [status |-> status]
        matched == {id \in DOMAIN quotes :
                       quotes[id] # NoDoc /\ Includes(body.quoteIds, id)}
        updated == [id \in DOMAIN quotes |->
                       IF id \in matched THEN updateData @@ quotes[id] ELSE quotes[id]]
        modifiedCount == Cardinality({id \in matched : updated[id] # quotes[id]})
    IN IF ~Has(body, "quoteIds") \/ Len(body.quoteIds) = 0
       THEN Outcome(quotes, Reply(400, FALSE, "Quote IDs array is required"), <<>>)
       ELSE IF status \notin bulkValidStatuses
       THEN Outcome(quotes, Reply(400, FALSE, "Invalid status value"), <<>>)
       ELSE Outcome(updated,
                    [data |-> [modifiedCount |-> modifiedCount]]
                    @@ Reply(200, TRUE, "quotes updated successfully"),
                    <<>>)

----------------------------------------------------------------------------
(* Routes: the middleware chain in front of each controller.  The rate     *)
(* limiters are left out: no request of the model exceeds a limit.         *)

Routed(route, outcome) == [outcome EXCEPT !.res = [route |-> route] @@ outcome.res]

Rejected(route, reply) == Routed(route, Outcome(quotes, reply, <<>>))

postQuotes(slot, body, customerMail, adminMail) ==
    IF handleValidationErrors(validateCreateQuote(body)) # Passed
    THEN Rejected("POST /api/quotes", handleValidationErrors(validateCreateQuote(body)))
    ELSE Routed("POST /api/quotes", createQuote(slot, body, customerMail, adminMail))

patchQuoteStatus(id, body) ==
    IF handleValidationErrors(validateUpdateStatus(id, body)) # Passed
    THEN Rejected("PATCH /api/quotes/:id/status",
                  handleValidationErrors(validateUpdateStatus(id, body)))
    ELSE Routed("PATCH /api/quotes/:id/status",
                updateQuoteStatus(id, sanitizeUpdateStatus(body)))

patchQuoteAmount(id, body) ==
    IF handleValidationErrors(validateAddQuote(id, body)) # Passed
    THEN Rejected("PATCH /api/quotes/:id/quote",
                  handleValidationErrors(validateAddQuote(id, body)))
    ELSE Routed("PATCH /api/quotes/:id/quote", addQuoteAmount(id, body))

deleteQuoteById(id) ==
    IF handleValidationErrors(validateObjectId(id)) # Passed
    THEN Rejected("DELETE /api/quotes/:id", handleValidationErrors(validateObjectId(id)))
    ELSE Routed("DELETE /api/quotes/:id", deleteQuote(id))

patchBulkUpdateStatus(body) ==
    Routed("PATCH /api/admin/quotes/bulk-update-status", bulkUpdateStatus(body))

----------------------------------------------------------------------------
(* Requests the clients send *)

QuoteIds == 1..MaxQuotes

IdInputs == QuoteIds \cup {MalformedId}

AuthorizationHeaders ==
    {<<>>, <<"Bearer">>, <<"Bearer", "garbage">>, <<"Bearer", "expired-token">>,
     <<"Bearer", "user-token">>, <<"Bearer", "admin-token">>}

ReadmeRequest ==
    [service |-> "Web Development", timeline |-> "1-2 months", budget |-> 50000,
     currency |-> "KES", description |-> 43, features |-> <<"Frontend", "Backend">>,
     hosting |-> "Yes", domain |-> "Yes", maintenance |-> "Monthly"]

CreateInputs ==
    {ReadmeRequest,
     \* no timeline: refused by validateCreateQuote
     [service |-> "Web Development", budget |-> 50000, currency |-> "KES",
      description |-> 43, hosting |-> "Yes", domain |-> "Yes", maintenance |-> "None"],
     \* no hosting, domain, maintenance: refused by the schema
     [service |-> "Mobile App Design", timeline |-> "1-2 weeks", budget |-> 400,
      currency |-> "USD", description |-> 43],
     \* no design types: refused by the pre-save hook
     [service |-> "UI/UX Design", timeline |-> "3-4 weeks", budget |-> 500,
      currency |-> "USD", description |-> 43, platforms |-> <<"Desktop">>, pages |-> "3"],
     \* a status in the body: not looked at by validateCreateQuote, taken by
     \* new Quote; archived is refused by the schema, the others are stored
     ("status" :> "archived") @@ ReadmeRequest,
     ("status" :> "accepted") @@ ReadmeRequest,
     ("status" :> "quoted") @@ ReadmeRequest}

\* notes of at most 1000 characters
NotesInputs == {<<"auto-priced">>, <<Blank>>, <<Blank, "auto-priced", Blank>>}

UpdateStatusInputs ==
    WithOptional(WithOptional({<<>>}, "status", QuoteStatuses \cup {"archived"}),
                 "notes", NotesInputs)

AddQuoteInputs ==
    WithOptional(WithOptional({<<>>}, "amount", {0, 100}),
                 "currency", {"USD", "KES", "EUR"})

\* arrays of ids without repetition, in ascending order
BulkIdLists ==
    {<<>>} \cup {<<id>> : id \in QuoteIds}
    \cup {<<ab[1], ab[2]>> : ab \in {p \in QuoteIds \X QuoteIds : p[1] < p[2]}}

BulkUpdateInputs ==
    {o @@ b : o \in {<<>>} \cup {("quoteIds" :> ids) : ids \in BulkIdLists},
              b \in UpdateStatusInputs}

----------------------------------------------------------------------------
(* Specification of the service: requests handled one at a time.  res is   *)
(* the response of the exchange in progress; Complete ends the exchange.   *)

Init ==
    /\ quotes = [id \in QuoteIds |-> NoDoc]
    /\ res = NoRes
    /\ mail = <<>>
    /\ args = <<>>
    /\ result = NoResult

Handle(outcome) ==
    /\ res = NoRes
    /\ quotes' = outcome.quotes
    /\ res' = outcome.res
    /\ mail' = outcome.mail
    /\ UNCHANGED <<args, result>>

FreeSlots == {id \in QuoteIds : quotes[id] = NoDoc}

\* POST /api/quotes (public); the new document takes the lowest free id
SubmitQuote ==
    /\ FreeSlots # {}
    /\ \E body \in CreateInputs, customerMail \in BOOLEAN, adminMail \in BOOLEAN :
          Handle(postQuotes(CHOOSE id \in FreeSlots : \A other \in FreeSlots : id <= other,
                            body, customerMail, adminMail))

\* PATCH /api/quotes/:id/status behind the admin gate
ChangeStatus ==
    \E authHeader \in AuthorizationHeaders :
        IF adminGate(authHeader) # Passed
        THEN Handle(Rejected("PATCH /api/quotes/:id/status", adminGate(authHeader)))
        ELSE \E id \in IdInputs, body \in UpdateStatusInputs :
                Handle(patchQuoteStatus(id, body))

\* PATCH /api/quotes/:id/quote behind the admin gate
SetQuoteAmount ==
    \E authHeader \in AuthorizationHeaders :
        IF adminGate(authHeader) # Passed
        THEN Handle(Rejected("PATCH /api/quotes/:id/quote", adminGate(authHeader)))
        ELSE \E id \in IdInputs, body \in AddQuoteInputs :
                Handle(patchQuoteAmount(id, body))

\* DELETE /api/quotes/:id behind the admin gate
RemoveQuote ==
    \E authHeader \in AuthorizationHeaders :
        IF adminGate(authHeader) # Passed
        THEN Handle(Rejected("DELETE /api/quotes/:id", adminGate(authHeader)))
        ELSE \E id \in IdInputs : Handle(deleteQuoteById(id))

\* PATCH /api/admin/quotes/bulk-update-status behind the admin gate
BulkChangeStatus ==
    \E authHeader \in AuthorizationHeaders :
        IF adminGate(authHeader) # Passed
        THEN Handle(Rejected("PATCH /api/admin/quotes/bulk-update-status",
                             adminGate(authHeader)))
        ELSE \E body \in BulkUpdateInputs : Handle(patchBulkUpdateStatus(body))

\* the response has been sent: the exchange is over
Complete ==
    /\ res # NoRes
    /\ res' = NoRes
    /\ mail' = <<>>
    /\ UNCHANGED <<quotes, args, result>>

Next ==
    \/ SubmitQuote
    \/ ChangeStatus
    \/ SetQuoteAmount
    \/ RemoveQuote
    \/ BulkChangeStatus
    \/ Complete

Spec == Init /\ [][Next]_vars

----------------------------------------------------------------------------
(* Claims about the quote lifecycle (Spec).  A claim about what a request  *)
(* does is stated of every state in which the service takes a request.     *)

Idle == res = NoRes

StatusBodies == {body \in UpdateStatusInputs : Has(body, "status")}

ValidStatusBodies == {body \in StatusBodies : body.status \in QuoteStatuses}

\* C1: whatever the status of an existing quote, a status update to any of
\* pending, reviewed, quoted, accepted, rejected, completed is answered 200
\* and the stored quote then has the requested status: no order between the
\* statuses is enforced.
C1_AnyStatusToAnyStatus ==
    Idle =>
        \A id \in QuoteIds, body \in ValidStatusBodies :
            quotes[id] # NoDoc =>
                LET out == patchQuoteStatus(id, body)
                IN /\ out.res.status = 200 /\ out.res.success
                   /\ out.quotes[id] # NoDoc
                   /\ out.quotes[id].status = body.status
                   /\ out.res.data = out.quotes[id]

\* a completed quote has been moved back to pending
C1_Witness ==
    /\ res # NoRes /\ res.message = "Quote status updated successfully"
    /\ res.status = 200
    /\ mail[1].oldStatus = "completed"
    /\ res.data.status = "pending"
    /\ \E id \in QuoteIds : quotes[id] = res.data

PricedBodies ==
    {body \in AddQuoteInputs :
        /\ Has(body, "amount") /\ body.amount >= 1
        /\ OptionalIn(body, "currency", SupportedCurrencies)}

\* C2: adding an amount and a currency to an existing quote, whatever its
\* status, leaves it with status quoted, that amount and that currency (USD
\* when the request names none), replacing an amount and a currency it had;
\* the quote a submission has priced holds the computed total that way.
C2_AddQuoteSetsQuoted ==
    /\ Idle =>
          \A id \in QuoteIds, body \in PricedBodies :
              quotes[id] # NoDoc =>
                  LET out == patchQuoteAmount(id, body)
                      currency == IF Has(body, "currency") THEN body.currency ELSE "USD"
                  IN /\ out.res.status = 200
                     /\ out.quotes[id] # NoDoc
                     /\ out.quotes[id].status = "quoted"
                     /\ out.quotes[id].quotedAmount = body.amount
                     /\ out.quotes[id].quotedCurrency = currency
                     /\ out.quotes[id] = addQuote(quotes[id], body.amount, currency)
    /\ (~Idle /\ res.route = "POST /api/quotes" /\ res.status = 201
        /\ Has(res.data, "priceBreakdown")) =>
          /\ res.data.quote.status = "quoted"
          /\ res.data.quote.quotedAmount = res.data.priceBreakdown.totalPrice
          /\ res.data.quote.quotedCurrency = res.data.priceBreakdown.currency

\* the quote submitted in KES and priced 70250 KES now holds 100 USD
C2_Witness ==
    /\ res # NoRes /\ res.message = "Quote amount added successfully"
    /\ res.data.currency = "KES"
    /\ res.data.quotedAmount = 100
    /\ res.data.quotedCurrency = "USD"
    /\ res.data.status = "quoted"
    /\ \E id \in QuoteIds : quotes[id] = res.data

\* C3: a status update whose target is none of the six statuses (archived,
\* or no target at all) is answered 400: the validation of the route reports
\* the field status, the controller on its own answers "Invalid status
\* value"; the collection is what it was (status, notes and quoted amount of
\* every quote) and no e-mail is sent.
C3_InvalidStatusRejected ==
    Idle =>
        \A id \in IdInputs, body \in UpdateStatusInputs \ ValidStatusBodies :
            /\ LET out == patchQuoteStatus(id, body)
               IN /\ out.res.status = 400 /\ ~out.res.success
                  /\ out.res.message = "Validation failed"
                  /\ "status" \in out.res.errors
                  /\ out.quotes = quotes
                  /\ out.mail = <<>>
            /\ LET out == updateQuoteStatus(id, body)
               IN /\ out.res.status = 400 /\ ~out.res.success
                  /\ out.res.message = "Invalid status value"
                  /\ out.quotes = quotes
                  /\ out.mail = <<>>

\* a status update of a quoted quote holding notes has been refused for its
\* status
C3_Witness ==
    /\ res # NoRes /\ res.route = "PATCH /api/quotes/:id/status"
    /\ res.status = 400
    /\ Has(res, "errors") /\ res.errors = {"status"}
    /\ \E id \in QuoteIds :
          /\ quotes[id] # NoDoc /\ quotes[id].status = "accepted"
          /\ Has(quotes[id], "notes") /\ Has(quotes[id], "quotedAmount")

NonBlank(text) == {i \in 1..Len(text) : text[i] # Blank}

\* the text between the first and the last piece that is not white space
Stripped(text) ==
    IF NonBlank(text) = {} THEN <<>>
    ELSE SubSeq(text,
                CHOOSE i \in NonBlank(text) : \A j \in NonBlank(text) : i <= j,
                CHOOSE i \in NonBlank(text) : \A j \in NonBlank(text) : i >= j)

NotedBodies == {body \in ValidStatusBodies : ArrayLength(body, "notes") # 0}

\* C4 as stated: a successful status update that carries a note leaves the
\* quote with the new status and with exactly that note.
C4_NotePersistedVerbatim ==
    Idle =>
        \A id \in QuoteIds, body \in NotedBodies :
            LET out == patchQuoteStatus(id, body)
            IN out.res.status = 200 =>
                  /\ out.quotes[id].status = body.status
                  /\ Has(out.quotes[id], "notes")
                  /\ out.quotes[id].notes = body.notes

\* C4: a successful status update that carries a note leaves the quote with
\* the new status and with the note stripped of the white space around it;
\* when nothing is left of the note, the single update keeps the notes the
\* quote had and the bulk update stores the empty note.
C4_NotePersistedTrimmed ==
    Idle =>
        /\ \A id \in QuoteIds, body \in NotedBodies :
              LET out == patchQuoteStatus(id, body)
              IN out.res.status = 200 =>
                    /\ out.quotes[id].status = body.status
                    /\ IF Stripped(body.notes) # <<>>
                       THEN /\ Has(out.quotes[id], "notes")
                            /\ out.quotes[id].notes = Stripped(body.notes)
                       ELSE /\ Has(out.quotes[id], "notes") = Has(quotes[id], "notes")
                            /\ Has(quotes[id], "notes") =>
                                  out.quotes[id].notes = quotes[id].notes
        /\ \A ids \in BulkIdLists, body \in NotedBodies :
              LET out == patchBulkUpdateStatus(("quoteIds" :> ids) @@ body)
              IN out.res.status = 200 =>
                    \A id \in QuoteIds :
                        (Includes(ids, id) /\ quotes[id] # NoDoc) =>
                            /\ out.quotes[id].status = body.status
                            /\ Has(out.quotes[id], "notes")
                            /\ out.quotes[id].notes = Stripped(body.notes)

\* a pending quote has been moved to quoted with the note auto-priced, sent
\* with white space around it
C4_Witness ==
    /\ res # NoRes /\ res.message = "Quote status updated successfully"
    /\ mail[1].oldStatus = "pending"
    /\ res.data.status = "quoted"
    /\ Has(res.data, "notes") /\ res.data.notes = <<"auto-priced">>
    /\ \E id \in QuoteIds : quotes[id] = res.data

TerminalStatuses == {"rejected", "completed"}

\* C5 as stated: once the status of a quote is rejected or completed, no
\* step changes it while the quote exists.
C5_TerminalAbsorbing ==
    [][\A id \in QuoteIds :
          (quotes[id] # NoDoc /\ quotes[id].status \in TerminalStatuses
           /\ quotes'[id] # NoDoc) =>
              quotes'[id].status = quotes[id].status]_vars

\* the outcome out of a request leaves the quote id with another status
StatusChanged(out, id) ==
    out.quotes[id] # NoDoc /\ out.quotes[id].status # quotes[id].status

\* C5: rejected and completed are not absorbing.  A status update, single
\* or bulk, moves a rejected or completed quote to any of the six statuses
\* and an added amount moves it to quoted.  The status of such a quote
\* changes in no other way: only by a request answered 200 that names the
\* quote, a status update (to its target) or an added amount (to quoted); a
\* request that is refused, a submission and a deletion leave it as it is.
C5_TerminalLeftOnlyByRequest ==
    Idle =>
        \A id \in QuoteIds :
            (quotes[id] # NoDoc /\ quotes[id].status \in TerminalStatuses) =>
                /\ \A t \in QuoteStatuses :
                      /\ patchQuoteStatus(id, [status |-> t]).quotes[id].status = t
                      /\ patchBulkUpdateStatus([quoteIds |-> <<id>>, status |-> t])
                             .quotes[id].status = t
                /\ patchQuoteAmount(id, [amount |-> 100]).quotes[id].status = "quoted"
                /\ \A i \in IdInputs, body \in UpdateStatusInputs :
                      LET out == patchQuoteStatus(i, body)
                      IN StatusChanged(out, id) =>
                            /\ out.res.status = 200 /\ i = id
                            /\ body \in ValidStatusBodies
                            /\ out.quotes[id].status = body.status
                /\ \A body \in BulkUpdateInputs :
                      LET out == patchBulkUpdateStatus(body)
                      IN StatusChanged(out, id) =>
                            /\ out.res.status = 200
                            /\ Has(body, "quoteIds") /\ Includes(body.quoteIds, id)
                            /\ Has(body, "status") /\ body.status \in QuoteStatuses
                            /\ out.quotes[id].status = body.status
                /\ \A i \in IdInputs, body \in AddQuoteInputs :
                      LET out == patchQuoteAmount(i, body)
                      IN StatusChanged(out, id) =>
                            /\ out.res.status = 200 /\ i = id
                            /\ body \in PricedBodies
                            /\ out.quotes[id].status = "quoted"
                /\ \A i \in IdInputs : ~StatusChanged(deleteQuoteById(i), id)
                /\ \A slot \in FreeSlots, body \in CreateInputs, sent \in BOOLEAN :
                      ~StatusChanged(postQuotes(slot, body, sent, sent), id)
                /\ \A authHeader \in AuthorizationHeaders :
                      adminGate(authHeader) # Passed =>
                          ~StatusChanged(Rejected("PATCH /api/quotes/:id/status",
                                                  adminGate(authHeader)), id)

\* a rejected quote has been moved to accepted
C5_Witness ==
    /\ res # NoRes /\ res.message = "Quote status updated successfully"
    /\ mail[1].oldStatus = "rejected"
    /\ res.data.status = "accepted"
    /\ \E id \in QuoteIds : quotes[id] = res.data

----------------------------------------------------------------------------
(* Claims about the complexity classifier (SpecClassify) *)

ComplexityTiers == {"basic", "intermediate", "advanced"}

\* C6: determineComplexity is defined for every request and returns only
\* basic, intermediate or advanced: a score of 4 or more gives advanced, a
\* score of 2 or 3 gives intermediate, and every lower score, negative ones
\* included, gives basic.
C6_TierTotalAndThresholds ==
    /\ result = NoResult => ENABLED Classify
    /\ result # NoResult =>
          /\ result.complexity \in ComplexityTiers
          /\ result.complexityScore >= 4 <=> result.complexity = "advanced"
          /\ (result.complexityScore >= 2 /\ result.complexityScore < 4)
                <=> result.complexity = "intermediate"
          /\ result.complexityScore < 2 <=> result.complexity = "basic"

\* the negative score: timeline 1-2 weeks and no other signal
C6_Witness ==
    /\ result # NoResult
    /\ args.timeline = "1-2 weeks"
    /\ result.complexityScore = 0 - 1
    /\ result.complexity = "basic"

\* The additive score as the design states it, for a request q
StatedBudgetPoints(q) ==
    LET currency == IF Has(q, "currency") THEN q.currency ELSE "KES"
        priced == {i \in 1..Len(SERVICES) :
                      SERVICES[i].name = q.service /\ currency \in DOMAIN SERVICES[i].basePrice}
    IN IF priced = {} THEN 0
       ELSE LET base == SERVICES[CHOOSE i \in priced : TRUE].basePrice[currency]
            IN CASE q.budget >= 3 * base -> 2
                 [] q.budget < 3 * base /\ 10 * q.budget >= 15 * base -> 1
                 [] OTHER -> 0

StatedTimelinePoints(q) ==
    CASE q.timeline = "6+ months" -> 2
      [] q.timeline = "3-6 months" -> 1
      [] q.timeline = "1-2 weeks" -> 0 - 1
      [] OTHER -> 0

StatedLength(q, key) == IF key \in DOMAIN q THEN Len(q[key]) ELSE 0

StatedMember(q, key, x) == key \in DOMAIN q /\ x \in {q[key][i] : i \in DOMAIN q[key]}

StatedServicePoints(q) ==
    CASE q.service \in {"Web Development", "Mobile App Design"} ->
            (CASE StatedLength(q, "features") >= 4 -> 2
               [] StatedLength(q, "features") \in {2, 3} -> 1
               [] OTHER -> 0)
            + (IF StatedMember(q, "features", "Authentication") THEN 1 ELSE 0)
            + (IF StatedMember(q, "features", "API") THEN 1 ELSE 0)
      [] q.service = "UI/UX Design" ->
            (CASE StatedLength(q, "designType") >= 3 -> 2
               [] StatedLength(q, "designType") = 2 -> 1
               [] OTHER -> 0)
            + (IF StatedLength(q, "platforms") >= 3 THEN 1 ELSE 0)
      [] q.service = "Digital Marketing" ->
            (CASE StatedLength(q, "marketingChannels") >= 4 -> 2
               [] StatedLength(q, "marketingChannels") \in {2, 3} -> 1
               [] OTHER -> 0)
            + (IF "campaignDuration" \in DOMAIN q
                  /\ q.campaignDuration \in {"12 Months", "Ongoing"} THEN 1 ELSE 0)
      [] OTHER -> 0

StatedDescriptionPoints(q) == IF q.description > 500 THEN 1 ELSE 0

StatedScore(q) ==
    StatedBudgetPoints(q) + StatedTimelinePoints(q) + StatedServicePoints(q)
    + StatedDescriptionPoints(q)

\* C7: for every request of the bounded input sets the score computed by
\* determineComplexity is the stated additive score: budget ratio, timeline,
\* exactly one service-specific branch (none for E-commerce Solutions and
\* Consulting & Automation, whatever option lists are supplied) and the
\* description length.  A request without a currency is scored in KES.
C7_ScoreIsStatedSum ==
    result # NoResult => result.complexityScore = StatedScore(args)

\* an E-commerce request that supplies five features and three design types
\* and still scores nothing for them
C7_Witness ==
    /\ result # NoResult
    /\ args.service = "E-commerce Solutions"
    /\ Has(args, "features") /\ Len(args.features) = 5
    /\ Has(args, "designType") /\ Len(args.designType) = 3
    /\ args.budget = 0 /\ args.timeline = "1-2 months" /\ args.description = 20
    /\ result.complexityScore = 0

IsReadmeExample(q) ==
    /\ q.service = "Web Development"
    /\ Has(q, "currency") /\ q.currency = "KES"
    /\ q.budget = 50000
    /\ q.timeline = "1-2 months"
    /\ Has(q, "features") /\ q.features = <<"Frontend", "Backend">>
    /\ q.description <= 500

\* C8: Web Development, KES, budget 50000, timeline 1-2 months, features
\* [Frontend, Backend] and a short description score exactly 2 (+1 budget
\* ratio, +0 timeline, +1 feature count, +0 Authentication/API, +0
\* description) and are classified intermediate.
C8_ExampleIsIntermediate ==
    (result # NoResult /\ IsReadmeExample(args)) =>
        /\ budgetScore(args) = 1
        /\ timelineScore(args) = 0
        /\ developmentScore(args) = 1
        /\ descriptionScore(args) = 0
        /\ result.complexityScore = 2
        /\ result.complexity = "intermediate"

C8_Witness ==
    /\ result # NoResult
    /\ IsReadmeExample(args)
    /\ result.complexity = "intermediate"

----------------------------------------------------------------------------
(* Claims about the price calculator (SpecPrice) *)

IsBreakdown(r) == r # NoResult /\ ~Has(r, "error")

\* C9: calculateEstimatedPrice('Web Development', 'intermediate', 'KES',
\* ['hosting', 'domain']) returns multiplier 1.8, servicePrice 54000, addon
\* prices 1300 and 1950, addonPrice 3250 and totalPrice 57250.
C9_WebDevelopmentExample ==
    (/\ result # NoResult
     /\ args = [serviceName |-> "Web Development", complexity |-> "intermediate",
                currency |-> "KES", addons |-> <<"hosting", "domain">>])
    => /\ IsBreakdown(result)
       /\ result.multiplier = 18
       /\ result.servicePrice = 54000
       /\ Len(result.addons) = 2
       /\ result.addons[1].price = 1300
       /\ result.addons[2].price = 1950
       /\ result.addonPrice = 3250
       /\ result.totalPrice = 57250

C9_Witness ==
    /\ IsBreakdown(result)
    /\ args.serviceName = "Web Development" /\ args.complexity = "intermediate"
    /\ args.currency = "KES" /\ args.addons = <<"hosting", "domain">>
    /\ result.totalPrice = 57250

RECURSIVE StatedSum(_)
StatedSum(prices) == IF prices = <<>> THEN 0 ELSE prices[1] + StatedSum(Tail(prices))

\* n is x = base * tenths / 10 rounded half up: n - 1/2 <= x < n + 1/2
IsRoundHalfUp(n, base, tenths) ==
    /\ 20 * n - 10 <= 2 * base * tenths
    /\ 2 * base * tenths < 20 * n + 10

\* C10: for every catalog service, every tier, USD and KES and every list of
\* addon keys, the breakdown has servicePrice = basePrice x multiplier rounded
\* half up to a whole unit (115 x 2.5 gives 288, 385 x 3.5 gives 1348),
\* addonPrice = the sum of the prices of the returned addons, and
\* totalPrice = servicePrice + addonPrice.
C10_BreakdownArithmetic ==
    (/\ IsBreakdown(result)
     /\ args.serviceName \in ServiceNames
     /\ args.complexity \in ComplexityTiers
     /\ args.currency \in {"USD", "KES"})
    => /\ IsRoundHalfUp(result.servicePrice, result.basePrice, result.multiplier)
       /\ (result.basePrice = 115 /\ result.multiplier = 25 => result.servicePrice = 288)
       /\ (result.basePrice = 385 /\ result.multiplier = 35 => result.servicePrice = 1348)
       /\ result.addonPrice
             = StatedSum([i \in 1..Len(result.addons) |-> result.addons[i].price])
       /\ result.totalPrice = result.servicePrice + result.addonPrice

\* the half case 385 x 3.5 = 1347.5, with two addons applied
C10_Witness ==
    /\ IsBreakdown(result)
    /\ args.serviceName = "Mobile App Design" /\ args.complexity = "advanced"
    /\ args.currency = "USD"
    /\ result.servicePrice = 1348
    /\ Len(result.addons) = 2
    /\ result.totalPrice = 1348 + result.addons[1].price + result.addons[2].price

----------------------------------------------------------------------------
(* Claims about addon keys, currencies and tiers (SpecPrice) *)

CatalogKeys == {"hosting", "domain", "maintenance", "ssl"}

IsCatalogKey(key) == key \in CatalogKeys

\* C11: for a catalog service and every list of addon keys, the keys that
\* are not in the addon catalog raise no error and contribute nothing: the
\* returned addons, addonPrice and totalPrice are those of the same list
\* with the unknown keys removed.
C11_UnknownKeysIgnored ==
    (result # NoResult /\ args.serviceName \in ServiceNames) =>
        LET known == calculateEstimatedPrice(args.serviceName, args.complexity,
                                             args.currency,
                                             SelectSeq(args.addons, IsCatalogKey))
        IN /\ ~Has(result, "error")
           /\ result.addons = known.addons
           /\ result.addonPrice = known.addonPrice
           /\ result.totalPrice = known.totalPrice

\* the tier the design names for each catalog addon
StatedTier(key) ==
    CASE key \in {"hosting", "ssl"} -> "basic"
      [] key = "domain" -> ".com"
      [] key = "maintenance" -> "monthly"

StatedAddonPrice(key, currency) ==
    LET prices == SERVICE_ADDONS[key].prices
    IN (prices[CHOOSE i \in 1..Len(prices) : prices[i].tier = StatedTier(key)]).price[currency]

\* C12: in USD and KES every catalog key of the list is priced at the basic
\* tier of its addon when the addon declares one (hosting 10 / 1300, ssl
\* 50 / 6500) and otherwise at the first tier it declares (domain: .com,
\* 15 / 1950; maintenance: monthly, 100 / 13000).
C12_AddonDefaultTier ==
    (IsBreakdown(result) /\ args.currency \in {"USD", "KES"}) =>
        LET keys == SelectSeq(args.addons, IsCatalogKey)
        IN /\ Len(result.addons) = Len(keys)
           /\ \A i \in 1..Len(keys) :
                 /\ result.addons[i].name = SERVICE_ADDONS[keys[i]].name
                 /\ result.addons[i].price = StatedAddonPrice(keys[i], args.currency)
                 /\ (keys[i] = "domain" /\ args.currency = "KES")
                       => result.addons[i].price = 1950
                 /\ (keys[i] = "maintenance" /\ args.currency = "USD")
                       => result.addons[i].price = 100
                 /\ (keys[i] = "hosting" /\ args.currency = "USD")
                       => result.addons[i].price = 10
                 /\ (keys[i] = "ssl" /\ args.currency = "KES")
                       => result.addons[i].price = 6500

\* domain, maintenance and ssl priced in KES
C12_Witness ==
    /\ IsBreakdown(result)
    /\ args.addons = <<"domain", "maintenance", "ssl">> /\ args.currency = "KES"
    /\ result.addons[1].price = 1950
    /\ result.addons[2].price = 13000
    /\ result.addons[3].price = 6500
    /\ result.addonPrice = 21450

----------------------------------------------------------------------------
(* POST /api/services/calculate-price, services router.  The handler reads *)
(* req.query.  The parameter addons is a comma-separated string or an      *)
(* array; each item is a free text (a sequence of pieces).                 *)

\* the string a text is, as an addon key: a single word is that word, the
\* empty text is '', any longer text is a string that is no key
asKey(text) ==
    CASE Len(text) = 0 -> ""
      [] Len(text) = 1 -> text[1]
      [] OTHER -> Blank

\* parsedAddons: addons.split(',').map(addon => addon.trim()) of a string
\* (the empty string splits into one empty item), the array itself, [] when
\* the parameter is absent
parseAddons(query) ==
    IF ~Has(query, "addons") THEN <<>>
    ELSE IF query.addons.form = "string"
    THEN IF query.addons.items = <<>> THEN <<"">>
         ELSE [i \in 1..Len(query.addons.items) |->
                  asKey(trim(query.addons.items[i]))]
    ELSE [i \in 1..Len(query.addons.items) |-> asKey(query.addons.items[i])]

\* the validation chain of the route
validateCalculatePrice(query) ==
    FieldError("service", Truthy(query, "service"))
    \cup FieldError("complexity",
                    OptionalIn(query, "complexity", {"basic", "intermediate", "advanced"}))
    \cup FieldError("currency", OptionalIn(query, "currency", {"USD", "KES"}))

\* handleValidationErrors of the services router
handleServicesValidationErrors(errors) ==
    IF errors # {}
    THEN [errors |-> errors] @@ Reply(400, FALSE, "Validation failed")
    ELSE Passed

\* the route: the response, and what calculateEstimatedPrice returned (or
\* threw) when the handler called it
calculatePriceRoute(query) ==
    IF handleServicesValidationErrors(validateCalculatePrice(query)) # Passed
    THEN [res |-> [route |-> "POST /api/services/calculate-price"]
                  @@ handleServicesValidationErrors(validateCalculatePrice(query)),
          result |-> NoResult]
    ELSE LET complexity == IF Has(query, "complexity") THEN query.complexity ELSE "basic"
             currency == IF Has(query, "currency") THEN query.currency ELSE "KES"
             priceCalculation ==
                 calculateEstimatedPrice(query.service, complexity, currency,
                                         parseAddons(query))
         IN [res |-> [route |-> "POST /api/services/calculate-price"]
                     @@ (IF Has(priceCalculation, "error")
                         THEN Reply(400, FALSE, priceCalculation.error)
                         ELSE [data |-> priceCalculation]
                              @@ Reply(200, TRUE, "Price calculated successfully")),
             result |-> priceCalculation]

PriceQueries ==
    WithOptional(
        WithOptional(
            WithOptional(
                WithOptional({<<>>}, "service",
                             {"", "Web Development", "Consulting & Automation",
                              "Logo Design"}),
                "complexity", {"basic", "intermediate", "advanced", "expert"}),
            "currency", {"USD", "KES", "EUR"}),
        "addons", [form : {"string", "array"}, items : SeqsUpTo({<<"hosting">>, <<Blank, "domain", Blank>>, <<"cdn">>,
                                    <<"constructor">>}, MaxAddons)])

InitPriceRoute ==
    /\ quotes = <<>>
    /\ res = NoRes
    /\ mail = <<>>
    /\ args \in PriceQueries
    /\ result = NoResult

RequestPrice ==
    /\ res = NoRes
    /\ res' = calculatePriceRoute(args).res
    /\ result' = calculatePriceRoute(args).result
    /\ UNCHANGED <<quotes, mail, args>>

NextPriceRoute == RequestPrice

SpecPriceRoute == InitPriceRoute /\ [][NextPriceRoute]_vars

\* C13: a service name that matches no catalog service makes
\* calculateEstimatedPrice signal "Service not found" and return no price
\* breakdown; the calculate-price endpoint answers such a request 400 with
\* success = false, with that message when the request passes validation.
C13_ServiceNotFound ==
    (res # NoRes /\ Truthy(args, "service") /\ args.service \notin ServiceNames) =>
        /\ res.status = 400 /\ ~res.success /\ ~Has(res, "data")
        /\ validateCalculatePrice(args) = {} =>
              /\ result = [error |-> "Service not found"]
              /\ res.message = "Service not found"

\* the unknown service is reported before any addon key is looked at
C13_Witness ==
    /\ res # NoRes /\ res.status = 400 /\ res.message = "Service not found"
    /\ args.service = "Logo Design"
    /\ Has(args, "addons") /\ args.addons.items = <<<<"constructor">>>>
    /\ result = [error |-> "Service not found"]

\* C14: a known service asked in a currency its basePrice does not list makes
\* calculateEstimatedPrice signal an unsupported-currency failure instead of
\* returning a price breakdown.
C14_UnsupportedCurrencySignalled ==
    (result # NoResult /\ args.serviceName \in ServiceNames
       /\ args.currency \notin DOMAIN getServiceByName(args.serviceName).basePrice) =>
        /\ Has(result, "error")
        /\ ~Has(result, "totalPrice")

\* C15: a complexity label that is none of the service's tiers raises no
\* error of its own: the call fails only where the same call with 'basic'
\* fails; otherwise multiplier 1.0 is applied, and servicePrice and totalPrice
\* are those of the 'basic' tier.
C15_UnknownTierIsUnit ==
    (result # NoResult /\ args.serviceName \in ServiceNames
       /\ args.complexity \notin ComplexityTiers
       /\ args.currency \in {"USD", "KES"}) =>
        LET basic == calculateEstimatedPrice(args.serviceName, "basic",
                                             args.currency, args.addons)
        IN IF Has(basic, "error") THEN result = basic
           ELSE /\ ~Has(result, "error")
                /\ result.multiplier = 10
                /\ result.servicePrice = basic.servicePrice
                /\ result.servicePrice = result.basePrice
                /\ result.totalPrice = basic.totalPrice
                /\ result.complexity = args.complexity

C15_Witness ==
    /\ IsBreakdown(result)
    /\ args.serviceName = "Web Development" /\ args.complexity = "expert"
    /\ args.currency = "KES" /\ args.addons = <<"hosting">>
    /\ result.multiplier = 10 /\ result.servicePrice = 30000
    /\ result.totalPrice = 31300

\* C17: every service of the catalog defines exactly the tiers basic,
\* intermediate and advanced, with 1.0 <= basic <= intermediate <= advanced;
\* so the multiplier of every breakdown is at least 1.0 and a higher tier
\* never prices the same request lower.
C17_TiersOrdered ==
    /\ \A i \in 1..Len(SERVICES) :
          LET tiers == SERVICES[i].complexity
          IN /\ DOMAIN tiers = {"basic", "intermediate", "advanced"}
             /\ 10 <= tiers["basic"].multiplier
             /\ tiers["basic"].multiplier <= tiers["intermediate"].multiplier
             /\ tiers["intermediate"].multiplier <= tiers["advanced"].multiplier
    /\ (IsBreakdown(result) /\ args.currency \in {"USD", "KES"}) =>
          /\ result.multiplier >= 10
          /\ result.servicePrice >= result.basePrice
          /\ \A tier \in ComplexityTiers :
                LET other == calculateEstimatedPrice(args.serviceName, tier,
                                                     args.currency, args.addons)
                IN (result.complexity = "basic"
                      \/ (result.complexity = "intermediate" /\ tier = "advanced")) =>
                       result.totalPrice <= other.totalPrice

C17_Witness ==
    /\ IsBreakdown(result)
    /\ args.serviceName = "E-commerce Solutions" /\ args.complexity = "advanced"
    /\ result.multiplier = 40
    /\ getServiceByName(args.serviceName).complexity["intermediate"].multiplier = 22

----------------------------------------------------------------------------
(* The engine functions called in any order.  args is what a call can     *)
(* reach: the caller's request object and the module's catalogs; result   *)
(* is the log of the calls made, each with the arguments given and the    *)
(* value returned (or the error thrown).                                  *)

MaxCalls == 3

EnginePriceRequests ==
    [serviceName : {"Web Development", "UI/UX Design", "Logo Design"},
     complexity : {"basic", "advanced"},
     currency : {"KES"},
     addons : {<<>>, <<"hosting", "cdn">>}]

EngineQuoteRequests ==
    {ReadmeRequest,
     [service |-> "UI/UX Design", timeline |-> "6+ months", budget |-> 1500,
      currency |-> "USD", description |-> 43,
      designType |-> <<"Wireframes", "Prototype", "Branding">>,
      platforms |-> <<"Desktop">>, pages |-> "3"]}

Reachable(request) ==
    [request |-> request, SERVICES |-> SERVICES, SERVICE_ADDONS |-> SERVICE_ADDONS]

\* variant: addonPrice is kept at module level and accumulates over the calls
returnedBy_Accumulating(log, fn, request) ==
    LET fresh == calculateEstimatedPrice(request.serviceName, request.complexity,
                                         request.currency, request.addons)
        Earlier[n \in 0..Len(log)] ==
            IF n = 0 THEN 0
            ELSE Earlier[n - 1]
                 + (IF log[n].fn = "calculateEstimatedPrice"
                       /\ ~Has(log[n].returned, "error")
                    THEN calculateEstimatedPrice(
                             log[n].given.serviceName, log[n].given.complexity,
                             log[n].given.currency, log[n].given.addons).addonPrice
                    ELSE 0)
    IN CASE fn = "determineComplexity" -> determineComplexity(request)
         [] fn = "determineAddons" -> determineAddons(request)
         [] OTHER ->
              IF Has(fresh, "error") THEN fresh
              ELSE [fresh EXCEPT !.addonPrice = @ + Earlier[Len(log)],
                                 !.totalPrice = @ + Earlier[Len(log)]]

\* the value a call returns; the body of no function reads anything but its
\* parameters and the catalogs, so the earlier calls (log) play no part
returnedBy(log, fn, request) ==
    CASE fn = "determineComplexity" -> determineComplexity(request)
      [] fn = "determineAddons" -> determineAddons(request)
      [] OTHER -> calculateEstimatedPrice(request.serviceName, request.complexity,
                                          request.currency, request.addons)

\* variant: the addon keys are taken off the caller's array while priced
reachableAfter_Consumed(fn, reach) ==
    IF fn = "calculateEstimatedPrice"
    THEN [reach EXCEPT !.request.addons = <<>>]
    ELSE reach

\* the objects a call can reach, after the call: no function assigns to a
\* property of its parameter or of a catalog
reachableAfter(fn, reach) == reach

InitEngine ==
    /\ quotes = <<[newQuote(ReadmeRequest) EXCEPT !.status = "reviewed"]>>
    /\ res = NoRes
    /\ mail = <<>>
    /\ args \in {Reachable(request) : request \in EnginePriceRequests \cup EngineQuoteRequests}
    /\ result = <<>>

CallEngine(fn) ==
    /\ Len(result) < MaxCalls
    /\ result' = Append(result, [fn |-> fn, given |-> args.request,
                                 returned |-> returnedBy(result, fn, args.request)])
    /\ args' = reachableAfter(fn, args)
    /\ UNCHANGED <<quotes, res, mail>>

CallDetermineComplexity ==
    /\ ~Has(args.request, "serviceName")
    /\ CallEngine("determineComplexity")

CallDetermineAddons ==
    /\ ~Has(args.request, "serviceName")
    /\ CallEngine("determineAddons")

CallCalculateEstimatedPrice ==
    /\ Has(args.request, "serviceName")
    /\ CallEngine("calculateEstimatedPrice")

\* the caller turns to another request
NextRequest ==
    /\ Len(result) < MaxCalls
    /\ \E request \in EnginePriceRequests \cup EngineQuoteRequests :
          /\ request # args.request
          /\ args' = [args EXCEPT !.request = request]
    /\ UNCHANGED <<quotes, res, mail, result>>

NextEngine ==
    \/ CallDetermineComplexity
    \/ CallDetermineAddons
    \/ CallCalculateEstimatedPrice
    \/ NextRequest

SpecEngine == InitEngine /\ [][NextEngine]_vars

----------------------------------------------------------------------------
(* Two lifecycle requests on the same stored quote, step by step.  Each   *)
(* controller awaits Quote.findById and then the save() of the model      *)
(* method; the other request may run at either await.  quotes holds the   *)
(* stored document, args the two requests, result each request's          *)
(* position with the document it loaded and the order of the saves.      *)

RaceInputs ==
    [fn : {"updateQuoteStatus"}, body : [status : QuoteStatuses \cup {"archived"}]]
    \cup [fn : {"addQuoteAmount"}, body : [amount : {0, 100}, currency : {"USD"}]]

\* the status a request asks for
targetStatus(request) ==
    IF request.fn = "updateQuoteStatus" THEN request.body.status ELSE "quoted"

\* the check each controller makes before it reads the quote
raceRefusal(request) ==
    IF request.fn = "updateQuoteStatus"
    THEN IF request.body.status \notin validStatuses
         THEN Reply(400, FALSE, "Invalid status value") ELSE Passed
    ELSE IF request.body.amount <= 0
         THEN Reply(400, FALSE, "Valid quote amount is required") ELSE Passed

\* the document after the model method's assignments
assignedBy(request, quote) ==
    IF request.fn = "updateQuoteStatus"
    THEN updateStatus(quote, request.body.status, <<>>)
    ELSE addQuote(quote, request.body.amount, request.body.currency)

\* the paths save() writes: those whose assigned value differs from the
\* value the document was loaded with
modifiedPaths(loaded, assigned) ==
    {k \in DOMAIN assigned : ~Has(loaded, k) \/ loaded[k] # assigned[k]}

\* the stored document after the update save() sends
writeModified(stored, loaded, assigned) ==
    [k \in modifiedPaths(loaded, assigned) |-> assigned[k]] @@ stored

InitRace ==
    /\ \E status \in QuoteStatuses :
          quotes = <<[newQuote(ReadmeRequest) EXCEPT !.status = status]>>
    /\ res = NoRes
    /\ mail = <<>>
    /\ args \in [{"A", "B"} -> RaceInputs]
    /\ result = [A |-> [pc |-> "start"], B |-> [pc |-> "start"], saved |-> <<>>]

\* up to the await of Quote.findById
FindQuote(p) ==
    /\ result[p].pc = "start"
    /\ result' = [result EXCEPT ![p] =
                     IF raceRefusal(args[p]) # Passed
                     THEN [pc |-> "done", res |-> raceRefusal(args[p])]
                     ELSE [pc |-> "loaded", quote |-> quotes[1]]]
    /\ UNCHANGED <<quotes, res, mail, args>>

\* the model method with its save(), the e-mail and the response
SaveQuote(p) ==
    /\ result[p].pc = "loaded"
    /\ LET loaded == result[p].quote
           assigned == assignedBy(args[p], loaded)
       IN /\ saveOutcome(assigned) = "saved"
          /\ quotes' = <<writeModified(quotes[1], loaded, assigned)>>
          /\ \E sent \in BOOLEAN :
                mail' = Append(mail, Email(IF args[p].fn = "updateQuoteStatus"
                                           THEN "statusUpdate" ELSE "quoteResponse", sent))
          /\ result' = [result EXCEPT
                ![p] = [pc |-> "done",
                        res |-> [data |-> assigned]
                                @@ Reply(200, TRUE,
                                         IF args[p].fn = "updateQuoteStatus"
                                         THEN "Quote status updated successfully"
                                         ELSE "Quote amount added successfully")],
                !.saved = Append(@, p)]
    /\ UNCHANGED <<res, args>>

NextRace == \E p \in {"A", "B"} : FindQuote(p) \/ SaveQuote(p)

SpecRace == InitRace /\ [][NextRace]_vars

\* C19: when two lifecycle requests on the same quote interleave, the stored
\* status after both have finished is the status asked for by the request
\* whose save completed last.
C19_LastSaveWins ==
    (result.A.pc = "done" /\ result.B.pc = "done" /\ Len(result.saved) > 0) =>
        quotes[1].status = targetStatus(args[result.saved[Len(result.saved)]])

----------------------------------------------------------------------------
(* Claims about the README example (Spec) *)

LowestFreeSlot == CHOOSE id \in FreeSlots : \A other \in FreeSlots : id <= other

SentMessage == "Quote request submitted and quote sent successfully"

ReadmeBreakdown ==
    calculateEstimatedPrice(ReadmeRequest.service, determineComplexity(ReadmeRequest),
                            effectiveCurrency(ReadmeRequest),
                            determineAddons(ReadmeRequest))

\* the name and price of every entry of an addons list
Itemised(addons) == [i \in 1..Len(addons) |-> <<addons[i].name, addons[i].price>>]

----------------------------------------------------------------------------
(* The admin operations of the quotes router, one request against any     *)
(* collection.  Every route is the chain adminLimiter, authenticate,      *)
(* authorizeAdmin, validation, handler.  args records the request, result *)
(* the controller the chain reached.                                      *)

AdminHeaders == AuthorizationHeaders \cup {<<"Bearer", "premature-token">>}

StoredSamples ==
    {newQuote(ReadmeRequest), addQuote(newQuote(ReadmeRequest), 70250, "KES")}

Stored == {id \in QuoteIds : quotes[id] # NoDoc}

\* getAllQuotes with the default page, limit and sort; the documents found
\* are given as a set
getAllQuotes(query) ==
    LET found == {id \in Stored :
                     /\ Truthy(query, "status") => quotes[id].status = query.status
                     /\ Truthy(query, "service") => quotes[id].service = query.service}
        totalQuotes == Cardinality(found)
        totalPages == (totalQuotes + 9) \div 10
    IN Outcome(quotes,
               [data |-> [quotes |-> {quotes[id] : id \in found},
                          pagination |-> [currentPage |-> 1, totalPages |-> totalPages,
                                          totalQuotes |-> totalQuotes,
                                          hasNextPage |-> 1 < totalPages,
                                          hasPrevPage |-> FALSE]]]
               @@ Reply(200, TRUE, "Quotes retrieved successfully"),
               <<>>)

getQuoteById(id) ==
    IF ~isMongoId(id)
    THEN Outcome(quotes, Reply(400, FALSE, "Invalid quote ID format"), <<>>)
    ELSE IF quotes[id] = NoDoc
    THEN Outcome(quotes, Reply(404, FALSE, "Quote not found"), <<>>)
    ELSE Outcome(quotes,
                 [data |-> quotes[id]] @@ Reply(200, TRUE, "Quote retrieved successfully"),
                 <<>>)

getQuotesByService(service) ==
    IF service \notin ServiceNames
    THEN Outcome(quotes, Reply(400, FALSE, "Invalid service type"), <<>>)
    ELSE LET found == {id \in Stored : quotes[id].service = service}
         IN Outcome(quotes,
                    [data |-> [quotes |-> {quotes[id] : id \in found},
                               service |-> service,
                               pagination |-> [currentPage |-> 1,
                                               totalPages |-> (Cardinality(found) + 9) \div 10,
                                               totalQuotes |-> Cardinality(found)]]]
                    @@ Reply(200, TRUE, "Quotes for the service retrieved successfully"),
                    <<>>)

\* getQuoteStats: the counts of the overview
getQuoteStats ==
    LET Count(status) == Cardinality({id \in Stored : quotes[id].status = status})
    IN Outcome(quotes,
               [data |-> [overview |-> [totalQuotes |-> Cardinality(Stored),
                                        pendingQuotes |-> Count("pending"),
                                        quotedQuotes |-> Count("quoted"),
                                        acceptedQuotes |-> Count("accepted"),
                                        completedQuotes |-> Count("completed")]]]
               @@ Reply(200, TRUE, "Quote statistics retrieved successfully"),
               <<>>)

validateQueryParams(query) ==
    FieldError("status", OptionalIn(query, "status", QuoteStatuses))
    \cup FieldError("service", OptionalIn(query, "service", ServiceNames))

validateServiceParam(service) == FieldError("service", service \in ServiceNames)

\* variant: authorizeAdmin lets every authenticated user through
adminChain_AnyRole(route, authHeader, validation, handler, outcome) ==
    IF authenticate(authHeader) # Passed
    THEN [out |-> Rejected(route, authenticate(authHeader)), handler |-> "none"]
    ELSE IF validation # Passed
    THEN [out |-> Rejected(route, validation), handler |-> "none"]
    ELSE [out |-> Routed(route, outcome), handler |-> handler]

\* a route of the router: the middleware in the order it is registered, then
\* the controller
adminChain(route, authHeader, validation, handler, outcome) ==
    IF adminGate(authHeader) # Passed
    THEN [out |-> Rejected(route, adminGate(authHeader)), handler |-> "none"]
    ELSE IF validation # Passed
    THEN [out |-> Rejected(route, validation), handler |-> "none"]
    ELSE [out |-> Routed(route, outcome), handler |-> handler]

InitAdmin ==
    /\ quotes \in [QuoteIds -> StoredSamples \cup {NoDoc}]
    /\ res = NoRes
    /\ mail = <<>>
    /\ args = <<>>
    /\ result = NoResult

Serve(route, authHeader, chain) ==
    /\ res = NoRes
    /\ quotes' = chain.out.quotes
    /\ res' = chain.out.res
    /\ mail' = chain.out.mail
    /\ args' = [route |-> route, authHeader |-> authHeader]
    /\ result' = [handler |-> chain.handler]

\* GET /api/quotes
AdminList ==
    \E authHeader \in AdminHeaders,
       query \in WithOptional(WithOptional({<<>>}, "status",
                                           {"pending", "quoted", "archived"}),
                              "service", {"Web Development", "Logo Design"}) :
        Serve("GET /api/quotes", authHeader,
              adminChain("GET /api/quotes", authHeader,
                         handleValidationErrors(validateQueryParams(query)),
                         "getAllQuotes", getAllQuotes(query)))

\* GET /api/quotes/stats
AdminStats ==
    \E authHeader \in AdminHeaders :
        Serve("GET /api/quotes/stats", authHeader,
              adminChain("GET /api/quotes/stats", authHeader, Passed,
                         "getQuoteStats", getQuoteStats))

\* GET /api/quotes/service/:service
AdminByService ==
    \E authHeader \in AdminHeaders, service \in {"Web Development", "Logo Design"} :
        Serve("GET /api/quotes/service/:service", authHeader,
              adminChain("GET /api/quotes/service/:service", authHeader,
                         handleValidationErrors(validateServiceParam(service)),
                         "getQuotesByService", getQuotesByService(service)))

\* GET /api/quotes/:id
AdminGet ==
    \E authHeader \in AdminHeaders, id \in IdInputs :
        Serve("GET /api/quotes/:id", authHeader,
              adminChain("GET /api/quotes/:id", authHeader,
                         handleValidationErrors(validateObjectId(id)),
                         "getQuoteById", getQuoteById(id)))

\* PATCH /api/quotes/:id/status
AdminStatus ==
    \E authHeader \in AdminHeaders, id \in IdInputs, body \in UpdateStatusInputs :
        Serve("PATCH /api/quotes/:id/status", authHeader,
              adminChain("PATCH /api/quotes/:id/status", authHeader,
                         handleValidationErrors(validateUpdateStatus(id, body)),
                         "updateQuoteStatus",
                         updateQuoteStatus(id, sanitizeUpdateStatus(body))))

\* PATCH /api/quotes/:id/quote
AdminAmount ==
    \E authHeader \in AdminHeaders, id \in IdInputs, body \in AddQuoteInputs :
        Serve("PATCH /api/quotes/:id/quote", authHeader,
              adminChain("PATCH /api/quotes/:id/quote", authHeader,
                         handleValidationErrors(validateAddQuote(id, body)),
                         "addQuoteAmount", addQuoteAmount(id, body)))

\* DELETE /api/quotes/:id
AdminDelete ==
    \E authHeader \in AdminHeaders, id \in IdInputs :
        Serve("DELETE /api/quotes/:id", authHeader,
              adminChain("DELETE /api/quotes/:id", authHeader,
                         handleValidationErrors(validateObjectId(id)),
                         "deleteQuote", deleteQuote(id)))

NextAdmin ==
    \/ AdminList
    \/ AdminStats
    \/ AdminByService
    \/ AdminGet
    \/ AdminStatus
    \/ AdminAmount
    \/ AdminDelete

SpecAdmin == InitAdmin /\ [][NextAdmin]_vars

\* the header carries a token that verifies and whose role is admin
IsAdminToken(authHeader) ==
    /\ Len(authHeader) >= 2
    /\ Has(verifyToken(authHeader[2]), "role")
    /\ verifyToken(authHeader[2]).role = "admin"

\* the header carries a token that verifies
Verifies(authHeader) ==
    Len(authHeader) >= 2 /\ ~Has(verifyToken(authHeader[2]), "error")

\* the original reading of C22: every request without a verifying admin
\* token is answered 401, or 403 when the token verifies with another role
C22_RefusedWith401Or403 ==
    (res # NoRes /\ ~IsAdminToken(args.authHeader)) =>
        /\ result.handler = "none"
        /\ res.status = IF Verifies(args.authHeader) THEN 403 ELSE 401

\* C22: no admin quote operation (list, get by id, stats, by-service, status
\* update, quote-amount update, delete) runs its handler, changes a quote or
\* sends an e-mail unless the request carries a token that verifies and
\* whose role is 'admin'.  A missing, malformed, invalid or expired token is
\* answered 401, a verifying token with another role 403, and a token that
\* fails verification for another reason (not yet valid) 500; each time
\* before request validation and the handler.
C22_AdminOnly ==
    [][(res' # NoRes /\ ~IsAdminToken(args'.authHeader)) =>
          /\ result'.handler = "none"
          /\ quotes' = quotes
          /\ mail' = <<>>
          /\ ~res'.success
          /\ res'.message # "Validation failed"
          /\ res'.status =
                CASE Len(args'.authHeader) < 2 -> 401
                  [] Verifies(args'.authHeader) -> 403
                  [] verifyToken(args'.authHeader[2]).error
                         \in {"TokenExpiredError", "JsonWebTokenError"} -> 401
                  [] OTHER -> 500]_vars

\* a user's token on a status update of a stored quote
C22_Witness ==
    /\ res # NoRes /\ res.status = 403
    /\ args.route = "PATCH /api/quotes/:id/status"
    /\ args.authHeader = <<"Bearer", "user-token">>
    /\ result.handler = "none"
    /\ \E id \in QuoteIds : quotes[id] # NoDoc /\ quotes[id].status = "pending"

----------------------------------------------------------------------------
(* Claims about createQuote (Spec) *)

\* the bodies of CreateInputs that createQuote stores and prices
PricedCreateInputs ==
    {body \in CreateInputs :
        /\ handleValidationErrors(validateCreateQuote(body)) = Passed
        /\ saveOutcome(newQuote(body)) = "saved"}

AutomaticPrice(body) ==
    calculateEstimatedPrice(body.service, determineComplexity(body),
                            effectiveCurrency(body), determineAddons(body))

\* C23: when the customer quote e-mail or the admin notification fails after
\* createQuote recorded the price, the request is still answered 201 with
\* success = true and the warning 'Quote email delivery failed', and the
\* stored quote keeps status 'quoted' with the computed quotedAmount and
\* quotedCurrency: nothing is rolled back or deleted.
C23_MailFailureKeepsQuote ==
    /\ (Idle /\ FreeSlots # {}) =>
          \A body \in PricedCreateInputs, customerMail \in BOOLEAN, adminMail \in BOOLEAN :
              ~(customerMail /\ adminMail) =>
                  LET slot == LowestFreeSlot
                      out == postQuotes(slot, body, customerMail, adminMail)
                  IN /\ out.res.status = 201 /\ out.res.success
                     /\ Has(out.res, "warning")
                     /\ out.res.warning = "Quote email delivery failed"
                     /\ out.quotes[slot] # NoDoc
                     /\ out.quotes[slot].status = "quoted"
                     /\ out.quotes[slot].quotedAmount = AutomaticPrice(body).totalPrice
                     /\ out.quotes[slot].quotedCurrency = effectiveCurrency(body)
                     /\ \A id \in QuoteIds \ {slot} : out.quotes[id] = quotes[id]
    /\ (~Idle /\ res.route = "POST /api/quotes" /\ mail # <<>>
        /\ ~mail[Len(mail)].sent) =>
          /\ res.status = 201 /\ res.success
          /\ res.warning = "Quote email delivery failed"
          /\ \E id \in QuoteIds :
                /\ quotes[id] = res.data
                /\ quotes[id].status = "quoted"
                /\ Has(quotes[id], "quotedAmount")

\* the customer was reached, the admin notification failed
C23_Witness ==
    /\ ~Idle /\ res.route = "POST /api/quotes"
    /\ mail = <<Email("quoteResponse", TRUE), Email("quoteNotification", FALSE)>>
    /\ res.status = 201 /\ res.warning = "Quote email delivery failed"
    /\ res.data.status = "quoted" /\ res.data.quotedAmount = 70250
    /\ res.data.quotedCurrency = "KES"
    /\ \E id \in QuoteIds : quotes[id] = res.data

----------------------------------------------------------------------------
(* POST /api/quotes step by step: createQuote awaits the first save, the  *)
(* save of addQuote and each of the two e-mails.  args is the request     *)
(* body, result the position of the handler with the steps it has made.  *)

CreateStepInputs ==
    LET priced == {[ReadmeRequest EXCEPT !.hosting = h, !.maintenance = m, !.budget = b] :
                      h \in {"Yes", "No"}, m \in {"Monthly", "None"},
                      b \in {50000, 100000, 200000}}
        development ==
            {[ReadmeRequest EXCEPT !.service = s, !.hosting = h, !.domain = d,
                                   !.maintenance = m, !.currency = c] :
                s \in DevelopmentServices, h \in {"Yes", "No", "Advice"},
                d \in {"Yes", "No", "Advice"},
                m \in {"None", "Monthly", "Quarterly", "Yearly", "Custom"},
                c \in {"USD", "KES"}}
        plain == [service : {"E-commerce Solutions", "Consulting & Automation"},
                  timeline : {"3-6 months"}, budget : {50000}, currency : {"USD", "KES"},
                  description : {43}]
        other == plain \cup {[hosting |-> "Yes", domain |-> "Yes", maintenance |-> m] @@ body :
                                body \in plain, m \in {"None", "Yearly"}}
    IN CreateInputs \cup priced \cup development \cup other
       \cup {[k \in DOMAIN body \ {"currency"} |-> body[k]] : body \in priced}

CreateWarning ==
    [warning |-> "Quote email delivery failed"]
    @@ Reply(201, TRUE,
             "Quote request submitted successfully, but there was an issue sending the quote email")

\* variant: the admin is notified whether or not the customer was reached
afterCustomerMail_Continue(sent) == "customerMailed"

\* where createQuote goes on after sendQuoteResponseEmail: a failure is
\* thrown into the catch
afterCustomerMail(sent) == IF sent THEN "customerMailed" ELSE "done"

InitCreate ==
    /\ quotes = [id \in QuoteIds |-> NoDoc]
    /\ res = NoRes
    /\ mail = <<>>
    /\ args \in CreateStepInputs
    /\ result = [pc |-> "received", steps |-> <<>>]

Respond(reply) == res' = [route |-> "POST /api/quotes"] @@ reply

Step(pc, step) == result' = [result EXCEPT !.pc = pc, !.steps = Append(@, step)]

\* validateCreateQuote, new Quote(quoteData) and the first save
Persist ==
    /\ result.pc = "received"
    /\ IF handleValidationErrors(validateCreateQuote(args)) # Passed
       THEN /\ Respond(handleValidationErrors(validateCreateQuote(args)))
            /\ result' = [result EXCEPT !.pc = "done"]
            /\ UNCHANGED quotes
       ELSE IF saveOutcome(newQuote(args)) # "saved"
       THEN /\ Respond(IF saveOutcome(newQuote(args)) = "ValidationError"
                       THEN Reply(400, FALSE, "Validation failed")
                       ELSE Reply(500, FALSE, "Failed to create quote request"))
            /\ result' = [result EXCEPT !.pc = "done"]
            /\ UNCHANGED quotes
       ELSE /\ quotes' = [quotes EXCEPT ![1] = newQuote(args)]
            /\ Step("persisted", "persist")
            /\ UNCHANGED res
    /\ UNCHANGED <<mail, args>>

\* determineComplexity, determineAddons, calculateEstimatedPrice and the
\* assignments of addQuote, up to its save
Price ==
    /\ result.pc = "persisted"
    /\ LET priceCalculation == AutomaticPrice(args)
       IN IF Has(priceCalculation, "error")
          THEN /\ Respond([data |-> quotes[1]] @@ CreateWarning)
               /\ result' = [result EXCEPT !.pc = "done"]
          ELSE /\ result' = [pc |-> "priced", steps |-> Append(result.steps, "price"),
                             priceCalculation |-> priceCalculation]
               /\ UNCHANGED res
    /\ UNCHANGED <<quotes, mail, args>>

\* the save of addQuote
SaveQuoted ==
    /\ result.pc = "priced"
    /\ LET quotedQuote == addQuote(quotes[1], result.priceCalculation.totalPrice,
                                   effectiveCurrency(args))
       IN IF saveOutcome(quotedQuote) # "saved"
          THEN /\ Respond([data |-> quotedQuote] @@ CreateWarning)
               /\ result' = [result EXCEPT !.pc = "done"]
               /\ UNCHANGED quotes
          ELSE /\ quotes' = [quotes EXCEPT ![1] = quotedQuote]
               /\ Step("quoted", "quote")
               /\ UNCHANGED res
    /\ UNCHANGED <<mail, args>>

\* sendQuoteResponseEmail
SendCustomerMail ==
    /\ result.pc = "quoted"
    /\ \E sent \in BOOLEAN :
          /\ mail' = Append(mail, Email("quoteResponse", sent))
          /\ Step(afterCustomerMail(sent), "customerMail")
          /\ IF sent THEN UNCHANGED res
             ELSE Respond([data |-> quotes[1]] @@ CreateWarning)
    /\ UNCHANGED <<quotes, args>>

\* sendQuoteNotificationEmail and the response
SendAdminMail ==
    /\ result.pc = "customerMailed"
    /\ \E sent \in BOOLEAN :
          /\ mail' = Append(mail, Email("quoteNotification", sent))
          /\ Step("done", "adminMail")
          /\ IF sent
             THEN Respond([data |-> [quote |-> quotes[1],
                                     priceBreakdown |-> result.priceCalculation]]
                          @@ Reply(201, TRUE, SentMessage))
             ELSE Respond([data |-> quotes[1]] @@ CreateWarning)
    /\ UNCHANGED <<quotes, args>>

NextCreate ==
    \/ Persist
    \/ Price
    \/ SaveQuoted
    \/ SendCustomerMail
    \/ SendAdminMail

SpecCreate == InitCreate /\ [][NextCreate]_vars

IsPrefix(s, t) == Len(s) <= Len(t) /\ \A i \in 1..Len(s) : s[i] = t[i]

IsQuoted(doc) == doc # NoDoc /\ doc.status = "quoted" /\ Has(doc, "quotedAmount")

\* C24: createQuote makes its steps in one order: the quote is persisted,
\* the price is computed, the quote is saved as 'quoted', the customer
\* e-mail is sent, the admin notification is sent.  No e-mail is attempted
\* before the quote is stored as quoted, the admin notification is never
\* attempted when the customer e-mail failed, and the finished request is
\* what createQuote yields as a whole.
C24_FixedOrder ==
    /\ IsPrefix(result.steps, <<"persist", "price", "quote", "customerMail", "adminMail">>)
    /\ Len(result.steps) >= 1 => quotes[1] # NoDoc
    /\ Len(result.steps) \in {1, 2} =>
          quotes[1] = newQuote(args) /\ ~Has(quotes[1], "quotedAmount") /\ mail = <<>>
    /\ Len(result.steps) >= 3 => IsQuoted(quotes[1])
    /\ mail # <<>> =>
          /\ IsQuoted(quotes[1])
          /\ mail[1].template = "quoteResponse"
          /\ Len(mail) = Len(result.steps) - 3
    /\ Len(mail) >= 2 =>
          /\ Len(mail) = 2
          /\ mail[1].sent
          /\ mail[2].template = "quoteNotification"
    /\ (mail # <<>> /\ ~mail[1].sent) => result.pc = "done" /\ Has(res, "warning")
    /\ result.pc = "done" <=> res # NoRes
    /\ result.pc = "done" =>
          LET out == postQuotes(1, args, mail # <<>> /\ mail[1].sent,
                                Len(mail) = 2 /\ mail[2].sent)
          IN /\ res = out.res
             /\ mail = out.mail
             /\ quotes = out.quotes

\* the customer e-mail failed: the request is over, the admin was not tried
C24_Witness ==
    /\ result.pc = "done"
    /\ result.steps = <<"persist", "price", "quote", "customerMail">>
    /\ mail = <<Email("quoteResponse", FALSE)>>
    /\ IsQuoted(quotes[1])
    /\ Has(res, "warning")

\* the addon names the claim states for a request, in the order hosting,
\* domain, maintenance
StatedAddonNames(quoteData) ==
    IF quoteData.service \notin {"Web Development", "Mobile App Design"} THEN <<>>
    ELSE (IF Has(quoteData, "hosting") /\ quoteData.hosting = "Yes"
          THEN <<"Web Hosting">> ELSE <<>>)
         \o (IF Has(quoteData, "domain") /\ quoteData.domain = "Yes"
             THEN <<"Domain Registration">> ELSE <<>>)
         \o (IF Has(quoteData, "maintenance")
                /\ quoteData.maintenance \in {"Monthly", "Quarterly", "Yearly", "Custom"}
             THEN <<"Website Maintenance">> ELSE <<>>)

\* C25: the automatic price of a request has addons only for Web Development
\* and Mobile App Design: Web Hosting iff hosting = 'Yes', Domain
\* Registration iff domain = 'Yes', Website Maintenance iff maintenance is
\* present and not 'None' ('No' and 'Advice' add nothing).  For every other
\* service the addons list is empty and the quoted total is the service
\* price.  Maintenance is priced at the monthly rate (KES 13000, USD 100)
\* whichever period was chosen.
C25_AddonsOfRequest ==
    Has(result, "priceCalculation") =>
        LET breakdown == result.priceCalculation
            currency == effectiveCurrency(args)
        IN /\ [i \in 1..Len(breakdown.addons) |-> breakdown.addons[i].name]
                 = StatedAddonNames(args)
           /\ \A i \in 1..Len(breakdown.addons) :
                 breakdown.addons[i].price =
                     CASE breakdown.addons[i].name = "Web Hosting" ->
                              IF currency = "KES" THEN 1300 ELSE 10
                       [] breakdown.addons[i].name = "Domain Registration" ->
                              IF currency = "KES" THEN 1950 ELSE 15
                       [] OTHER -> IF currency = "KES" THEN 13000 ELSE 100
           /\ args.service \notin {"Web Development", "Mobile App Design"} =>
                 /\ determineAddons(args) = <<>>
                 /\ breakdown.addonPrice = 0
                 /\ breakdown.totalPrice = breakdown.servicePrice
           /\ IsQuoted(quotes[1]) => quotes[1].quotedAmount = breakdown.totalPrice

\* a yearly maintenance is priced at the monthly rate
C25_Witness ==
    /\ Has(result, "priceCalculation") /\ IsQuoted(quotes[1])
    /\ args.service = "Mobile App Design"
    /\ args.hosting = "Advice" /\ args.domain = "No" /\ args.maintenance = "Yearly"
    /\ args.currency = "USD"
    /\ Len(result.priceCalculation.addons) = 1
    /\ result.priceCalculation.addons[1].name = "Website Maintenance"
    /\ result.priceCalculation.addons[1].price = 100

----------------------------------------------------------------------------
(* initializeDB(maxRetries, retryDelay), src/database/mongodb.js.  args   *)
(* holds the parameters and config.app.isProduction; result holds the     *)
(* position of the loop, retries, the module's isConnected, and counts    *)
(* the calls of connectDB and those that failed.                          *)

MaxRetries == 4

\* variant: the last failure is not recognised
reachedMax_Never(retries, maxRetries) == retries > maxRetries

\* if (retries === maxRetries)
reachedMax(retries, maxRetries) == retries = maxRetries

InitDB ==
    /\ quotes = <<>>
    /\ res = NoRes
    /\ mail = <<>>
    /\ args \in [maxRetries : 0..MaxRetries, retryDelay : {0, 5000},
                 isProduction : BOOLEAN]
    /\ \E isConnected \in BOOLEAN :
          result = [pc |-> "loop", retries |-> 0, isConnected |-> isConnected,
                    calls |-> 0, failed |-> 0]

\* one turn of the loop: await connectDB() and the catch up to its timer
Attempt ==
    /\ result.pc = "loop"
    /\ result.retries < args.maxRetries
    /\ IF result.isConnected
       THEN result' = [result EXCEPT !.pc = "returned", !.calls = @ + 1]
       ELSE \E connects \in BOOLEAN, ready \in BOOLEAN :
               result' =
                   IF connects
                   THEN [result EXCEPT !.pc = "returned", !.calls = @ + 1,
                                       !.isConnected = ready]
                   ELSE IF args.isProduction
                   THEN [result EXCEPT !.pc = "exited", !.calls = @ + 1,
                                       !.failed = @ + 1]
                   ELSE [result EXCEPT
                            !.pc = IF reachedMax(result.retries + 1, args.maxRetries)
                                   THEN "thrown" ELSE "waiting",
                            !.retries = @ + 1, !.calls = @ + 1, !.failed = @ + 1]
    /\ UNCHANGED <<quotes, res, mail, args>>

\* the timer of retryDelay fires
Wait ==
    /\ result.pc = "waiting"
    /\ result' = [result EXCEPT !.pc = "loop"]
    /\ UNCHANGED <<quotes, res, mail, args>>

\* the condition of the while loop is false: the function returns
LoopExit ==
    /\ result.pc = "loop"
    /\ ~(result.retries < args.maxRetries)
    /\ result' = [result EXCEPT !.pc = "returned"]
    /\ UNCHANGED <<quotes, res, mail, args>>

NextDB ==
    \/ Attempt
    \/ Wait
    \/ LoopExit

SpecDB == InitDB /\ [][NextDB]_vars /\ WF_vars(NextDB)

\* the original reading of C26: whenever maxRetries attempts have failed,
\* the last error is rethrown
C26_RethrowsAfterMaxFailures ==
    (args.maxRetries >= 1 /\ result.failed = args.maxRetries) => result.pc = "thrown"

\* C26: initializeDB always ends and calls connectDB at most maxRetries
\* times.  It returns as soon as one attempt succeeds, without a further
\* attempt.  Outside production, when maxRetries (at least one) attempts in
\* a row fail it rethrows the last error instead of returning; in
\* production connectDB ends the process at the first failure.
C26_BoundedRetries ==
    /\ [](/\ result.calls <= args.maxRetries
          /\ result.failed = (IF args.isProduction /\ result.pc = "exited" THEN 1
                              ELSE result.retries)
          /\ result.pc = "returned" =>
                /\ result.calls = (IF args.maxRetries = 0 THEN 0 ELSE result.failed + 1)
                /\ result.failed < args.maxRetries \/ args.maxRetries = 0
          /\ (~args.isProduction /\ args.maxRetries >= 1
              /\ result.failed = args.maxRetries) => result.pc = "thrown"
          /\ result.pc = "thrown" =>
                ~args.isProduction /\ result.failed = args.maxRetries
          /\ result.pc = "exited" => args.isProduction /\ result.calls = 1)
    /\ <>(result.pc \in {"returned", "thrown", "exited"})
    /\ [][result.pc \in {"returned", "thrown", "exited"} => result' = result]_vars

\* the third of three attempts failed
C26_Witness ==
    /\ result.pc = "thrown"
    /\ args.maxRetries = 3 /\ result.calls = 3 /\ result.failed = 3 /\ result.retries = 3
    /\ ~args.isProduction

\* C27: once createQuote has recorded the automatic price, the stored
\* quote's quotedCurrency is the quote's own currency and the price was
\* computed from that currency's table, also for a request without the
\* field currency.
C27_QuotedInOwnCurrency ==
    (Has(result, "priceCalculation") /\ IsQuoted(quotes[1])) =>
        /\ quotes[1].quotedCurrency = quotes[1].currency
        /\ result.priceCalculation.currency = quotes[1].currency

----------------------------------------------------------------------------
(* Claims about the stored status (Spec) *)

\* C28: in every reachable state, whatever requests were made (create,
\* status update, quote amount, bulk status update, delete, valid or not),
\* the status of every stored quote is one of pending, reviewed, quoted,
\* accepted, rejected, completed.
C28_StoredStatusIsALabel ==
    \A id \in QuoteIds : quotes[id] # NoDoc => quotes[id].status \in QuoteStatuses

\* a bulk update to archived has been refused and the stored quote, moved
\* to rejected earlier, is still there
C28_Witness ==
    /\ res # NoRes /\ res.status = 400 /\ res.message = "Invalid status value"
    /\ res.route = "PATCH /api/admin/quotes/bulk-update-status"
    /\ \E id \in QuoteIds : quotes[id] # NoDoc /\ quotes[id].status = "rejected"

\* the paths of a document other than the two updateStatus may assign
FrameOf(doc) == [k \in DOMAIN doc \ {"status", "notes"} |-> doc[k]]

SameNotes(before, after) ==
    /\ Has(after, "notes") <=> Has(before, "notes")
    /\ Has(before, "notes") => after.notes = before.notes

\* C29: updateStatus changes the status and, when a note that is not empty
\* is given, the notes, and nothing else: quotedAmount, quotedCurrency and
\* every field of the request keep their values, no other quote is touched,
\* and a transition without a note, or with an empty one, leaves the stored
\* notes as they were.
C29_UpdateStatusFrame ==
    Idle =>
        \A id \in QuoteIds :
            quotes[id] # NoDoc =>
                /\ \A newStatus \in QuoteStatuses, notes \in NotesInputs \cup {<<>>} :
                      LET after == updateStatus(quotes[id], newStatus, notes)
                      IN /\ FrameOf(after) = FrameOf(quotes[id])
                         /\ after.status = newStatus
                         /\ IF notes = <<>> THEN SameNotes(quotes[id], after)
                            ELSE Has(after, "notes") /\ after.notes = trim(notes)
                /\ \A body \in ValidStatusBodies :
                      LET out == patchQuoteStatus(id, body)
                          after == out.quotes[id]
                          note == IF Has(body, "notes") THEN trim(body.notes) ELSE <<>>
                      IN /\ out.res.status = 200
                         /\ FrameOf(after) = FrameOf(quotes[id])
                         /\ after.status = body.status
                         /\ IF note = <<>> THEN SameNotes(quotes[id], after)
                            ELSE Has(after, "notes") /\ after.notes = note
                         /\ \A other \in QuoteIds \ {id} : out.quotes[other] = quotes[other]

\* a priced quote that carries a note has been moved from completed back to
\* pending: the amount, the currency and the note are still there
C29_Witness ==
    /\ res # NoRes /\ res.message = "Quote status updated successfully"
    /\ mail[1].oldStatus = "completed"
    /\ res.data.status = "pending"
    /\ Has(res.data, "notes") /\ res.data.notes = <<"auto-priced">>
    /\ Has(res.data, "quotedAmount") /\ res.data.quotedCurrency = "KES"
    /\ \E id \in QuoteIds : quotes[id] = res.data

\* C30: in every reachable state a stored quote whose status is quoted has
\* a quotedAmount.
C30_QuotedHasAmount ==
    \A id \in QuoteIds :
        (quotes[id] # NoDoc /\ quotes[id].status = "quoted") =>
            Has(quotes[id], "quotedAmount")

====
